---------------------------- MODULE Spec2Model ----------------------------
(***************************************************************************)
(* A model of the write-ahead log of LeisureLink/write-ahead-log: the log  *)
(* file (concatenated payloads), the index file (16 header bytes followed  *)
(* by 4-byte big-endian offsets), the index's cached header, and the       *)
(* operations of WriteAheadLog and LogIndexFile.  Files are sequences of   *)
(* bytes; byte i of a file is element i + 1 of its sequence.               *)
(***************************************************************************)
EXTENDS Integers, Sequences, FiniteSets, TLC

VARIABLES
    log,        \* contents of the log file (ranfile behind WriteAheadLog[$file])
    idx,        \* contents of the index file (ranfile behind LogIndexFile[$file])
    hdr,        \* LogIndexFile[$header]: the cached 16 header bytes
    stored,     \* history: the payload last written at each LSN that still exists
    writeLog,   \* history: the payloads of all writes, while only writes/reads were made
    onlyWrites, \* history: every operation since create was a write or a read
    lastOp,     \* history: the operation that completed last, and how it ended
    rr,         \* the readRange in progress: its closure variables, its Readable
                \* stream and what the stream's consumer has received
    writes      \* the writes launched without waiting for one another: for each
                \* how far it is and what it has read

vars == <<log, idx, hdr, stored, writeLog, onlyWrites, lastOp, rr, writes>>

----------------------------------------------------------------------------
(* Bounds of the model. *)

\* writes are offered while head < MaxHead
MaxHead == 3

\* the Readable's highWaterMark in bytes: push answers false when the stream
\* buffers that much
HighWaterMark == 3
----------------------------------------------------------------------------
(* Constants of log-index-file.js. *)

MARKER == <<73, 68, 88, 36>>   \* 'IDX$' in ascii
OFS_MARKER == 0
OFS_BASEINDEX == 4
OFS_HEAD == 8
OFS_COMMIT == 12
HLEN == 16
SIZEOF_INT == 4
DEF_COMMIT == -1

----------------------------------------------------------------------------
(* Buffers: Buffer.alloc, writeInt32BE, readInt32BE.  Integers are 32-bit  *)
(* two's complement, most significant byte first.                          *)

allocFill(len) == [i \in 1..len |-> 0]

\* the four bytes of a non-negative v < 2^31, big-endian
BytesOfNat(v) ==
    << (v \div 16777216) % 256, (v \div 65536) % 256, (v \div 256) % 256, v % 256 >>

\* the four bytes buf.writeInt32BE(v, ...) stores
Int32BE(v) ==
    IF v >= 0 THEN BytesOfNat(v)
    ELSE LET w == BytesOfNat(-(v + 1))
         IN  << 255 - w[1], 255 - w[2], 255 - w[3], 255 - w[4] >>

\* buf with `bytes` stored from byte position pos on (buf is long enough)
BufWrite(buf, pos, bytes) ==
    SubSeq(buf, 1, pos) \o bytes \o SubSeq(buf, pos + Len(bytes) + 1, Len(buf))

writeInt32BE(buf, v, pos) == BufWrite(buf, pos, Int32BE(v))

readInt32BE(buf, pos) ==
    LET b1 == buf[pos + 1]
        b2 == buf[pos + 2]
        b3 == buf[pos + 3]
        b4 == buf[pos + 4]
    IN  IF b1 >= 128
        THEN -((255 - b1) * 16777216 + (255 - b2) * 65536 + (255 - b3) * 256 + (255 - b4)) - 1
        ELSE b1 * 16777216 + b2 * 65536 + b3 * 256 + b4

----------------------------------------------------------------------------
(* The random-access file (package ranfile), as the repository uses it:    *)
(* read(offset, length), write(offset, data) which extends the file and    *)
(* resolves with the first byte after the data, truncate(length) which     *)
(* resolves with the new size.                                             *)

Min(a, b) == IF a < b THEN a ELSE b

\* n zero bytes (none when n <= 0)
Zeros(n) == IF n <= 0 THEN <<>> ELSE [i \in 1..n |-> 0]

FileRead(f, ofs, len) == SubSeq(f, ofs + 1, Min(ofs + len, Len(f)))

\* a write beyond the end of the file leaves a gap of zero bytes
FileWrite(f, ofs, data) ==
    SubSeq(f, 1, Min(ofs, Len(f))) \o Zeros(ofs - Len(f)) \o data
        \o SubSeq(f, ofs + Len(data) + 1, Len(f))

\* what write(offset, data) resolves with
FileWriteEnd(ofs, data) == ofs + Len(data)

\* truncate(n) cuts the file, or extends it with zero bytes
FileTruncate(f, n) == SubSeq(f, 1, Min(n, Len(f))) \o Zeros(n - Len(f))

----------------------------------------------------------------------------
(* The files of one log, with the index's cached header: a record          *)
(* [log, idx, hdr].  An operation yields a record with the files after it  *)
(* (st), whether its promise resolved (ok), the value it resolved with     *)
(* (res, or out for bytes) and the message of the error it rejected with.  *)

NoError == ""
ERR_RANGE == "index out of range"
ERR_COMMITTED == "cannot truncate a committed log entry"

\* `Out of order commit; expected ${expected} but received ${index}.`
OutOfOrderCommit(expected, index) ==
    "Out of order commit; expected " \o ToString(expected)
        \o " but received " \o ToString(index) \o "."

Resolved(st, res) == [st |-> st, ok |-> TRUE, res |-> res, err |-> NoError]
Rejected(st, err) == [st |-> st, ok |-> FALSE, res |-> -1, err |-> err]

----------------------------------------------------------------------------
(* LogIndexFile *)

baseIndex(h) == readInt32BE(h, OFS_BASEINDEX)
head(h) == readInt32BE(h, OFS_HEAD)
commitHead(h) == readInt32BE(h, OFS_COMMIT)

\* isCommitted answering true for the commit head as well
isCommitted_Inclusive(h, index) == index <= commitHead(h)

isCommitted(h, index) == index < commitHead(h)

localizeIndex(h, index) == index - baseIndex(h)

\* the header bytes a flush of one field writes: write(ofs, header, ofs, SIZEOF_INT)
HeaderField(h, ofs) == SubSeq(h, ofs + 1, ofs + SIZEOF_INT)

\* Index_commit flushing the commit head into the head field of the file
Index_commit_WrongField(st, index) ==
    LET expected == commitHead(st.hdr) + 1
        header == writeInt32BE(st.hdr, index, OFS_HEAD)
    IN  IF index < expected THEN Resolved(st, index)
        ELSE IF index # expected
        THEN Rejected(st, OutOfOrderCommit(expected, index))
        ELSE Resolved([st EXCEPT !.hdr = header,
                                 !.idx = FileWrite(st.idx, OFS_HEAD,
                                                   HeaderField(header, OFS_HEAD))],
                      index)

\* Index_commit changing the cached header before it checks the order
Index_commit_WritesFirst(st, index) ==
    LET expected == commitHead(st.hdr) + 1
        header == writeInt32BE(st.hdr, index, OFS_COMMIT)
    IN  IF index < expected THEN Resolved(st, index)
        ELSE IF index # expected
        THEN Rejected([st EXCEPT !.hdr = header],
                      OutOfOrderCommit(expected, index))
        ELSE Resolved([st EXCEPT !.hdr = header,
                                 !.idx = FileWrite(st.idx, OFS_COMMIT,
                                                   HeaderField(header, OFS_COMMIT))],
                      index)

\* Index_commit moving the commit head back to an LSN committed before
Index_commit_Rewinds(st, index) ==
    LET expected == commitHead(st.hdr) + 1
        header == writeInt32BE(st.hdr, index, OFS_COMMIT)
    IN  IF index > expected
        THEN Rejected(st, OutOfOrderCommit(expected, index))
        ELSE Resolved([st EXCEPT !.hdr = header,
                                 !.idx = FileWrite(st.idx, OFS_COMMIT,
                                                   HeaderField(header, OFS_COMMIT))],
                      index)

Index_commit(st, index) ==
    LET expected == commitHead(st.hdr) + 1
        header == writeInt32BE(st.hdr, index, OFS_COMMIT)
    IN  IF index < expected THEN Resolved(st, index)
        ELSE IF index # expected
        THEN Rejected(st, OutOfOrderCommit(expected, index))
        ELSE Resolved([st EXCEPT !.hdr = header,
                                 !.idx = FileWrite(st.idx, OFS_COMMIT,
                                                   HeaderField(header, OFS_COMMIT))],
                      index)

Index_offset(st, index) ==
    IF ~(index <= head(st.hdr)) THEN Rejected(st, ERR_RANGE)
    ELSE LET ofs == HLEN + (localizeIndex(st.hdr, index) * SIZEOF_INT)
             data == FileRead(st.idx, ofs, SIZEOF_INT)
         IN  Resolved(st, readInt32BE(data, 0))

\* Index_get taking the next entry's offset for the length
Index_get_LengthIsEnd(st, index) ==
    IF ~(index < head(st.hdr))
    THEN [ok |-> FALSE, offset |-> 0, length |-> 0, err |-> ERR_RANGE]
    ELSE LET ofs == HLEN + (localizeIndex(st.hdr, index) * SIZEOF_INT)
             data == FileRead(st.idx, ofs, 2 * SIZEOF_INT)
         IN  [ok |-> TRUE, offset |-> readInt32BE(data, 0),
              length |-> readInt32BE(data, SIZEOF_INT), err |-> NoError]

\* resolves with the record {offset, length}
Index_get(st, index) ==
    IF ~(index < head(st.hdr))
    THEN [ok |-> FALSE, offset |-> 0, length |-> 0, err |-> ERR_RANGE]
    ELSE LET ofs == HLEN + (localizeIndex(st.hdr, index) * SIZEOF_INT)
             data == FileRead(st.idx, ofs, 2 * SIZEOF_INT)
             offset == readInt32BE(data, 0)
         IN  [ok |-> TRUE, offset |-> offset,
              length |-> readInt32BE(data, SIZEOF_INT) - offset, err |-> NoError]

\* Index_truncate resolving with the offset of the last entry left, not its end
Index_truncate_OffsetOnly(st, from) ==
    IF ~(from > commitHead(st.hdr)) THEN Rejected(st, ERR_COMMITTED)
    ELSE IF ~(from < head(st.hdr)) THEN Rejected(st, ERR_RANGE)
    ELSE LET header == writeInt32BE(st.hdr, from, OFS_HEAD)
             st1 == [st EXCEPT !.hdr = header,
                               !.idx = FileWrite(st.idx, OFS_HEAD,
                                                 HeaderField(header, OFS_HEAD))]
             rec == IF head(st1.hdr) = baseIndex(st1.hdr)
                    THEN [ok |-> TRUE,
                          offset |-> readInt32BE(FileRead(st1.idx, HLEN, SIZEOF_INT), 0),
                          length |-> 0, err |-> NoError]
                    ELSE Index_get(st1, head(st1.hdr) - 1)
         IN  IF rec.ok THEN Resolved(st1, rec.offset)
             ELSE Rejected(st1, rec.err)

\* Index_truncate flushing the new head to the file from a copy of the header
Index_truncate_FileOnly(st, from) ==
    IF ~(from > commitHead(st.hdr)) THEN Rejected(st, ERR_COMMITTED)
    ELSE IF ~(from < head(st.hdr)) THEN Rejected(st, ERR_RANGE)
    ELSE LET header == writeInt32BE(st.hdr, from, OFS_HEAD)
             st1 == [st EXCEPT !.idx = FileWrite(st.idx, OFS_HEAD,
                                                 HeaderField(header, OFS_HEAD))]
             rec == IF head(header) = baseIndex(header)
                    THEN [ok |-> TRUE,
                          offset |-> readInt32BE(FileRead(st1.idx, HLEN, SIZEOF_INT), 0),
                          length |-> 0, err |-> NoError]
                    ELSE Index_get(st1, head(header) - 1)
         IN  IF rec.ok THEN Resolved(st1, rec.offset + rec.length)
             ELSE Rejected(st1, rec.err)

\* Index_truncate accepting a committed LSN
Index_truncate_NoCommitCheck(st, from) ==
    IF ~(from < head(st.hdr)) \/ from < baseIndex(st.hdr) THEN Rejected(st, ERR_RANGE)
    ELSE LET header == writeInt32BE(st.hdr, from, OFS_HEAD)
             st1 == [st EXCEPT !.hdr = header,
                               !.idx = FileWrite(st.idx, OFS_HEAD,
                                                 HeaderField(header, OFS_HEAD))]
             rec == IF head(st1.hdr) = baseIndex(st1.hdr)
                    THEN [ok |-> TRUE,
                          offset |-> readInt32BE(FileRead(st1.idx, HLEN, SIZEOF_INT), 0),
                          length |-> 0, err |-> NoError]
                    ELSE Index_get(st1, head(st1.hdr) - 1)
         IN  IF rec.ok THEN Resolved(st1, rec.offset + rec.length)
             ELSE Rejected(st1, rec.err)

Index_truncate(st, from) ==
    IF ~(from > commitHead(st.hdr)) THEN Rejected(st, ERR_COMMITTED)
    ELSE IF ~(from < head(st.hdr)) THEN Rejected(st, ERR_RANGE)
    ELSE LET header == writeInt32BE(st.hdr, from, OFS_HEAD)
             st1 == [st EXCEPT !.hdr = header,
                               !.idx = FileWrite(st.idx, OFS_HEAD,
                                                 HeaderField(header, OFS_HEAD))]
             rec == IF head(st1.hdr) = baseIndex(st1.hdr)
                    THEN [ok |-> TRUE,
                          offset |-> readInt32BE(FileRead(st1.idx, HLEN, SIZEOF_INT), 0),
                          length |-> 0, err |-> NoError]
                    ELSE Index_get(st1, head(st1.hdr) - 1)
         IN  IF rec.ok THEN Resolved(st1, rec.offset + rec.length)
             ELSE Rejected(st1, rec.err)

\* Index_increment resolving with the new head instead of the assigned LSN
Index_increment_ReturnsNext(st, offset) ==
    LET current == head(st.hdr)
        next == current + 1
        ofs == HLEN + (localizeIndex(st.hdr, next) * SIZEOF_INT)
        data == writeInt32BE(allocFill(SIZEOF_INT), offset, 0)
        idx1 == FileWrite(st.idx, ofs, data)
        header == writeInt32BE(st.hdr, next, OFS_HEAD)
        idx2 == FileWrite(idx1, OFS_HEAD, HeaderField(header, OFS_HEAD))
    IN  Resolved([st EXCEPT !.hdr = header, !.idx = idx2], next)

\* Index_increment changing the cached header only, not the one in the file
Index_increment_CacheOnly(st, offset) ==
    LET current == head(st.hdr)
        next == current + 1
        ofs == HLEN + (localizeIndex(st.hdr, next) * SIZEOF_INT)
        data == writeInt32BE(allocFill(SIZEOF_INT), offset, 0)
        idx1 == FileWrite(st.idx, ofs, data)
        header == writeInt32BE(st.hdr, next, OFS_HEAD)
    IN  Resolved([st EXCEPT !.hdr = header, !.idx = idx1], current)

\* Index_increment writing the offset into the slot of head, not of head + 1
Index_increment_SlotAtHead(st, offset) ==
    LET current == head(st.hdr)
        next == current + 1
        ofs == HLEN + (localizeIndex(st.hdr, current) * SIZEOF_INT)
        data == writeInt32BE(allocFill(SIZEOF_INT), offset, 0)
        idx1 == FileWrite(st.idx, ofs, data)
        header == writeInt32BE(st.hdr, next, OFS_HEAD)
        idx2 == FileWrite(idx1, OFS_HEAD, HeaderField(header, OFS_HEAD))
    IN  Resolved([st EXCEPT !.hdr = header, !.idx = idx2], current)

Index_increment(st, offset) ==
    LET current == head(st.hdr)
        next == current + 1
        ofs == HLEN + (localizeIndex(st.hdr, next) * SIZEOF_INT)
        data == writeInt32BE(allocFill(SIZEOF_INT), offset, 0)
        idx1 == FileWrite(st.idx, ofs, data)
        header == writeInt32BE(st.hdr, next, OFS_HEAD)
        idx2 == FileWrite(idx1, OFS_HEAD, HeaderField(header, OFS_HEAD))
    IN  Resolved([st EXCEPT !.hdr = header, !.idx = idx2], current)

ERR_COUNT == "count puts index out of range"

\* getRange(index, count): the records {index, offset, length} of count entries
Index_getRange(st, index, count) ==
    IF ~(index < head(st.hdr)) THEN [ok |-> FALSE, range |-> <<>>, err |-> ERR_RANGE]
    ELSE IF ~(count <= head(st.hdr) - index)
    THEN [ok |-> FALSE, range |-> <<>>, err |-> ERR_COUNT]
    ELSE LET ofs == HLEN + (localizeIndex(st.hdr, index) * SIZEOF_INT)
             data == FileRead(st.idx, ofs, (count + 1) * SIZEOF_INT)
         IN  [ok |-> TRUE,
              range |-> [i \in 1..count |->
                           [index |-> index + (i - 1),
                            offset |-> readInt32BE(data, (i - 1) * SIZEOF_INT),
                            length |-> readInt32BE(data, i * SIZEOF_INT)
                                       - readInt32BE(data, (i - 1) * SIZEOF_INT)]],
              err |-> NoError]

\* open(): the header is the first HLEN bytes of the file, if the marker is right
Index_open(file) ==
    LET data == FileRead(file, OFS_MARKER, HLEN)
    IN  [ok |-> SubSeq(data, OFS_MARKER + 1, OFS_BASEINDEX) = MARKER, hdr |-> data]

\* close(): the file is closed and the cached header dropped (null)
Null == <<>>
Index_close(h) == Null

\* Index_create writing the header without the first offset slot
Index_create_NoSlot(base, byteOffset) ==
    LET d0 == allocFill(HLEN)
        d1 == BufWrite(d0, OFS_MARKER, MARKER)
        d2 == writeInt32BE(d1, base, OFS_BASEINDEX)
        d3 == writeInt32BE(d2, base, OFS_HEAD)
        d4 == writeInt32BE(d3, DEF_COMMIT, OFS_COMMIT)
    IN  FileWrite(<<>>, OFS_MARKER, d4)

\* create(path, baseIndex, byteOffset): the bytes of the new index file
Index_create(base, byteOffset) ==
    LET d0 == allocFill(HLEN + SIZEOF_INT)
        d1 == BufWrite(d0, OFS_MARKER, MARKER)
        d2 == writeInt32BE(d1, base, OFS_BASEINDEX)
        d3 == writeInt32BE(d2, base, OFS_HEAD)
        d4 == writeInt32BE(d3, DEF_COMMIT, OFS_COMMIT)
        d5 == writeInt32BE(d4, byteOffset, HLEN)
    IN  FileWrite(<<>>, OFS_MARKER, d5)

----------------------------------------------------------------------------
(* WriteAheadLog *)

Wal_size(st) == Len(st.log)
Wal_next(st) == head(st.hdr)
Wal_commitHead(st) == commitHead(st.hdr)

Wal_isCommitted(st, index) == isCommitted(st.hdr, index)

Wal_commit(st, index) == Index_commit(st, index)

\* Wal_write recording the entry's first byte as the offset of the next entry
Wal_write_IncrementAtFirstByte(st, data) ==
    LET h == head(st.hdr)
        first == Index_offset(st, h)
    IN  IF ~first.ok THEN first
        ELSE LET firstByte == first.res
                 st1 == [st EXCEPT !.log = FileWrite(st.log, firstByte, data)]
             IN  Index_increment(st1, firstByte)

Wal_write(st, data) ==
    LET h == head(st.hdr)
        first == Index_offset(st, h)
    IN  IF ~first.ok THEN first
        ELSE LET firstByte == first.res
                 st1 == [st EXCEPT !.log = FileWrite(st.log, firstByte, data)]
                 subsequentByte == FileWriteEnd(firstByte, data)
             IN  Index_increment(st1, subsequentByte)

\* resolves with the entry's bytes (out)
Wal_read(st, index) ==
    LET rec == Index_get(st, index)
    IN  IF ~rec.ok THEN [ok |-> FALSE, out |-> <<>>, err |-> rec.err]
        ELSE [ok |-> TRUE, out |-> FileRead(st.log, rec.offset, rec.length),
              err |-> NoError]

\* Wal_truncate leaving the log file as long as it was
Wal_truncate_KeepsLog(st, from) ==
    LET r == Index_truncate(st, from)
    IN  IF ~r.ok THEN r
        ELSE Resolved(r.st, r.res)

Wal_truncate(st, from) ==
    LET r == Index_truncate(st, from)
    IN  IF ~r.ok THEN r
        ELSE Resolved([r.st EXCEPT !.log = FileTruncate(r.st.log, r.res)], r.res)

----------------------------------------------------------------------------
(* WriteAheadLog.recover.  The handler is a function from LSN to its       *)
(* answer; calls lists its invocations, each with the LSN that the commit  *)
(* following a truthy answer resolved with (committed, else -1); truncated *)
(* is the LSN at which the log was truncated (-1: at none).                *)

Truthy(commit) == commit = TRUE

RecoverEnd(st, ok, err, calls, truncated) ==
    [st |-> st, ok |-> ok, err |-> err, calls |-> calls, truncated |-> truncated]

\* truncAfterCommitHead truncating at the commit head itself
truncAfterCommitHead_AtCommitHead(st, calls) ==
    LET from == Wal_commitHead(st)
        t == Wal_truncate(st, from)
    IN  RecoverEnd(t.st, t.ok, t.err, calls, IF t.ok THEN from ELSE -1)

truncAfterCommitHead(st, calls) ==
    LET from == Wal_commitHead(st) + 1
        t == Wal_truncate(st, from)
    IN  RecoverEnd(t.st, t.ok, t.err, calls, IF t.ok THEN from ELSE -1)

\* possiblyRecover going on two entries after the one it committed
RECURSIVE possiblyRecover_SkipsEntry(_, _, _, _, _)
possiblyRecover_SkipsEntry(st, index, h, handler, calls) ==
    LET rd == Wal_read(st, index)
        commit == handler[index]
        c == Wal_commit(st, index)
        calls1 == Append(calls, [lsn |-> index, data |-> rd.out, answer |-> commit,
                                 committed |-> IF Truthy(commit) /\ c.ok
                                               THEN c.res ELSE -1])
    IN  IF ~rd.ok THEN RecoverEnd(st, FALSE, rd.err, calls, -1)
        ELSE IF Truthy(commit)
        THEN IF ~c.ok THEN RecoverEnd(c.st, FALSE, c.err, calls1, -1)
             ELSE IF (c.res + 1) < h
             THEN possiblyRecover_SkipsEntry(c.st, c.res + 2, h, handler, calls1)
             ELSE truncAfterCommitHead(c.st, calls1)
        ELSE truncAfterCommitHead(st, calls1)

\* possiblyRecover asking the handler about the next entry after a falsy answer
RECURSIVE possiblyRecover_GoesOn(_, _, _, _, _)
possiblyRecover_GoesOn(st, index, h, handler, calls) ==
    LET rd == Wal_read(st, index)
        commit == handler[index]
        c == Wal_commit(st, index)
        calls1 == Append(calls, [lsn |-> index, data |-> rd.out, answer |-> commit,
                                 committed |-> IF Truthy(commit) /\ c.ok
                                               THEN c.res ELSE -1])
    IN  IF ~rd.ok THEN RecoverEnd(st, FALSE, rd.err, calls, -1)
        ELSE IF Truthy(commit)
        THEN IF ~c.ok THEN RecoverEnd(c.st, FALSE, c.err, calls1, -1)
             ELSE IF (c.res + 1) < h
             THEN possiblyRecover_GoesOn(c.st, c.res + 1, h, handler, calls1)
             ELSE truncAfterCommitHead(c.st, calls1)
        ELSE IF (index + 1) < h
        THEN possiblyRecover_GoesOn(st, index + 1, h, handler, calls1)
        ELSE truncAfterCommitHead(st, calls1)

RECURSIVE possiblyRecover(_, _, _, _, _)
possiblyRecover(st, index, h, handler, calls) ==
    LET rd == Wal_read(st, index)
        commit == handler[index]
        c == Wal_commit(st, index)
        calls1 == Append(calls, [lsn |-> index, data |-> rd.out, answer |-> commit,
                                 committed |-> IF Truthy(commit) /\ c.ok
                                               THEN c.res ELSE -1])
    IN  IF ~rd.ok THEN RecoverEnd(st, FALSE, rd.err, calls, -1)
        ELSE IF Truthy(commit)
        THEN IF ~c.ok THEN RecoverEnd(c.st, FALSE, c.err, calls1, -1)
             ELSE IF (c.res + 1) < h
             THEN possiblyRecover(c.st, c.res + 1, h, handler, calls1)
             ELSE truncAfterCommitHead(c.st, calls1)
        ELSE truncAfterCommitHead(st, calls1)

\* Wal_recover entering the loop also when commitHead + 1 = next
Wal_recover_EntersAtHead(st, isFalse, fn) ==
    LET handler == IF isFalse THEN [i \in DOMAIN fn |-> FALSE] ELSE fn
        h == Wal_next(st)
        committed == Wal_commitHead(st)
    IN  IF (committed + 1) <= h
        THEN possiblyRecover(st, committed + 1, h, handler, <<>>)
        ELSE RecoverEnd(st, TRUE, NoError, <<>>, -1)

\* isFalse: the caller passed the literal false instead of a function
Wal_recover(st, isFalse, fn) ==
    LET handler == IF isFalse THEN [i \in DOMAIN fn |-> FALSE] ELSE fn
        h == Wal_next(st)
        committed == Wal_commitHead(st)
    IN  IF (committed + 1) < h
        THEN possiblyRecover(st, committed + 1, h, handler, <<>>)
        ELSE RecoverEnd(st, TRUE, NoError, <<>>, -1)

----------------------------------------------------------------------------
(* recover with a handler that answers with any kind of value: the answer  *)
(* is a value returned (kind "value"), an eventual that resolves with a    *)
(* value ("eventual"), an exception thrown ("throws") or an eventual that  *)
(* fails ("eventual fails"). The values are named by their literals.       *)

Value(v) == [kind |-> "value", val |-> v]
Eventual(v) == [kind |-> "eventual", val |-> v]
\* val is the error thrown, or the one the eventual fails with
Throws == [kind |-> "throws", val |-> "handler failed"]
EventualFails == [kind |-> "eventual fails", val |-> "eventual failed"]

Answers ==
    LET values == {"true", "false", "0", "null", "undefined", "''"}
    IN  {Value(v) : v \in values} \cup {Eventual(v) : v \in values}
            \cup {Throws, EventualFails}

\* typeof(commit)
Typeof(a) ==
    IF a.kind # "value" THEN "object"
    ELSE IF a.val = "null" THEN "object"
    ELSE IF a.val \in {"true", "false"} THEN "boolean"
    ELSE IF a.val = "0" THEN "number"
    ELSE IF a.val = "undefined" THEN "undefined"
    ELSE "string"

\* if (commit)
TruthyValue(v) == v = "true"

\* commit.then, evaluated on null
ERR_TYPE == "TypeError: Cannot read property 'then' of null"

\* possiblyRecover going on after an exception of the handler
RECURSIVE possiblyRecoverAny_IgnoresThrow(_, _, _, _, _)
possiblyRecoverAny_IgnoresThrow(st, index, h, handler, calls) ==
    LET rd == Wal_read(st, index)
        commit == handler[index]
        accepted == commit.kind \in {"value", "eventual"} /\ TruthyValue(commit.val)
        c == Wal_commit(st, index)
        calls1 == Append(calls, [lsn |-> index, data |-> rd.out, answer |-> commit,
                                 committed |-> IF accepted /\ c.ok THEN c.res ELSE -1])
    IN  IF ~rd.ok THEN RecoverEnd(st, FALSE, rd.err, calls, -1)
        ELSE IF commit.kind = "value" /\ Typeof(commit) = "object"
        THEN RecoverEnd(st, FALSE, ERR_TYPE, calls1, -1)
        ELSE IF accepted
        THEN IF ~c.ok THEN RecoverEnd(c.st, FALSE, c.err, calls1, -1)
             ELSE IF (c.res + 1) < h
             THEN possiblyRecoverAny_IgnoresThrow(c.st, c.res + 1, h, handler, calls1)
             ELSE truncAfterCommitHead(c.st, calls1)
        ELSE truncAfterCommitHead(st, calls1)

RECURSIVE possiblyRecoverAny(_, _, _, _, _)
possiblyRecoverAny(st, index, h, handler, calls) ==
    LET rd == Wal_read(st, index)
        commit == handler[index]
        \* the answer that reaches if (commit): the value returned, or the
        \* one the eventual resolved with
        accepted == commit.kind \in {"value", "eventual"} /\ TruthyValue(commit.val)
        c == Wal_commit(st, index)
        calls1 == Append(calls, [lsn |-> index, data |-> rd.out, answer |-> commit,
                                 committed |-> IF accepted /\ c.ok THEN c.res ELSE -1])
    IN  IF ~rd.ok THEN RecoverEnd(st, FALSE, rd.err, calls, -1)
        ELSE IF commit.kind = "throws" THEN RecoverEnd(st, FALSE, commit.val, calls1, -1)
        \* typeof(commit) === 'object' && typeof(commit.then) === 'function':
        \* null is an object and has no properties
        ELSE IF commit.kind = "value" /\ Typeof(commit) = "object"
        THEN RecoverEnd(st, FALSE, ERR_TYPE, calls1, -1)
        ELSE IF commit.kind = "eventual fails"
        THEN RecoverEnd(st, FALSE, commit.val, calls1, -1)
        ELSE IF accepted
        THEN IF ~c.ok THEN RecoverEnd(c.st, FALSE, c.err, calls1, -1)
             ELSE IF (c.res + 1) < h
             THEN possiblyRecoverAny(c.st, c.res + 1, h, handler, calls1)
             ELSE truncAfterCommitHead(c.st, calls1)
        ELSE truncAfterCommitHead(st, calls1)

Wal_recoverAny(st, handler) ==
    LET h == Wal_next(st)
        committed == Wal_commitHead(st)
    IN  IF (committed + 1) < h
        THEN possiblyRecoverAny(st, committed + 1, h, handler, <<>>)
        ELSE RecoverEnd(st, TRUE, NoError, <<>>, -1)

----------------------------------------------------------------------------
(* The file mutations of an operation, in the order in which it makes      *)
(* them: each with the two files as they are once it is done (log, idx)    *)
(* and what it is (mut): "log", the payload written to the log file;       *)
(* "slot", an offset slot written; "head" and "commit", the header field   *)
(* flushed; "truncate", the log file truncated.                            *)

Mutation(log_, idx_, mut) == [log |-> log_, idx |-> idx_, mut |-> mut]

\* Index_increment_writes with the slot of head written, not that of head + 1
Index_increment_writes_SlotAtHead(st, offset) ==
    LET r == Index_increment(st, offset)
        ofs == HLEN + (localizeIndex(st.hdr, head(st.hdr)) * SIZEOF_INT)
        data == writeInt32BE(allocFill(SIZEOF_INT), offset, 0)
    IN  << Mutation(st.log, FileWrite(st.idx, ofs, data), "slot"),
           Mutation(st.log, r.st.idx, "head") >>

Index_increment_writes(st, offset) ==
    LET r == Index_increment(st, offset)
        next == head(st.hdr) + 1
        ofs == HLEN + (localizeIndex(st.hdr, next) * SIZEOF_INT)
        data == writeInt32BE(allocFill(SIZEOF_INT), offset, 0)
    IN  << Mutation(st.log, FileWrite(st.idx, ofs, data), "slot"),
           Mutation(st.log, r.st.idx, "head") >>

\* Wal_write_writes with the head flushed before the slot is written
Wal_write_writes_HeadFirst(st, data) ==
    LET first == Index_offset(st, head(st.hdr))
    IN  IF ~first.ok THEN <<>>
        ELSE LET log1 == FileWrite(st.log, first.res, data)
                 st1 == [st EXCEPT !.log = log1]
                 r == Index_increment(st1, FileWriteEnd(first.res, data))
                 header == writeInt32BE(st.hdr, head(st.hdr) + 1, OFS_HEAD)
             IN  << Mutation(log1, st.idx, "log"),
                    Mutation(log1, FileWrite(st.idx, OFS_HEAD,
                                             HeaderField(header, OFS_HEAD)), "head"),
                    Mutation(log1, r.st.idx, "slot") >>

\* Wal_write_writes with the slot written before the payload
Wal_write_writes_SlotFirst(st, data) ==
    LET first == Index_offset(st, head(st.hdr))
    IN  IF ~first.ok THEN <<>>
        ELSE LET log1 == FileWrite(st.log, first.res, data)
                 st1 == [st EXCEPT !.log = log1]
                 w == Index_increment_writes(st1, FileWriteEnd(first.res, data))
             IN  << Mutation(st.log, w[1].idx, "slot"),
                    Mutation(log1, w[1].idx, "log"),
                    w[2] >>

Wal_write_writes(st, data) ==
    LET first == Index_offset(st, head(st.hdr))
    IN  IF ~first.ok THEN <<>>
        ELSE LET log1 == FileWrite(st.log, first.res, data)
                 st1 == [st EXCEPT !.log = log1]
             IN  <<Mutation(log1, st.idx, "log")>>
                 \o Index_increment_writes(st1, FileWriteEnd(first.res, data))

Wal_commit_writes(st, index) ==
    LET r == Wal_commit(st, index)
    IN  IF r.ok /\ index = commitHead(st.hdr) + 1
        THEN <<Mutation(st.log, r.st.idx, "commit")>>
        ELSE <<>>

\* Wal_truncate_writes with the log file truncated before the head is flushed
Wal_truncate_writes_LogFirst(st, from) ==
    LET r == Wal_truncate(st, from)
    IN  IF ~r.ok THEN <<>>
        ELSE << Mutation(r.st.log, st.idx, "truncate"),
                Mutation(r.st.log, r.st.idx, "head") >>

Wal_truncate_writes(st, from) ==
    LET r == Wal_truncate(st, from)
    IN  IF r.ok THEN << Mutation(st.log, r.st.idx, "head"),
                        Mutation(r.st.log, r.st.idx, "truncate") >>
        ELSE IF r.st.idx # st.idx THEN <<Mutation(st.log, r.st.idx, "head")>>
        ELSE <<>>

\* recover commits the LSNs commitHead + 1, commitHead + 2, ... one after
\* the other: the log as the commits up to c left it
CommittedTo(st, c) ==
    IF c = commitHead(st.hdr) THEN st
    ELSE LET header == writeInt32BE(st.hdr, c, OFS_COMMIT)
         IN  [st EXCEPT !.hdr = header,
                        !.idx = FileWrite(st.idx, OFS_COMMIT,
                                          HeaderField(header, OFS_COMMIT))]

\* recover: the mutations of the commits that follow the truthy answers
RECURSIVE recover_commits(_, _, _)
recover_commits(st, calls, k) ==
    IF k > Len(calls) THEN <<>>
    ELSE (IF calls[k].committed >= 0
          THEN Wal_commit_writes(CommittedTo(st, calls[k].lsn - 1), calls[k].lsn)
          ELSE <<>>)
         \o recover_commits(st, calls, k + 1)

\* the LSN of the last commit of the calls, none if there is no commit
RECURSIVE lastCommitted(_, _, _)
lastCommitted(calls, k, none) ==
    IF k = 0 THEN none
    ELSE IF calls[k].committed >= 0 THEN calls[k].committed
    ELSE lastCommitted(calls, k - 1, none)

\* recover: the mutations of its commits, then those of the truncate that
\* ends it (r is what recover does in st)
Wal_recover_writes(st, r) ==
    recover_commits(st, r.calls, 1)
    \o (IF Len(r.calls) > 0
        THEN Wal_truncate_writes(
                 CommittedTo(st, lastCommitted(r.calls, Len(r.calls), commitHead(st.hdr))),
                 Wal_commitHead(r.st) + 1)
        ELSE <<>>)

\* WriteAheadLog.create: an empty log file and a new index with base 0
Wal_create ==
    LET file == Index_create(0, 0)
    IN  [log |-> <<>>, idx |-> file, hdr |-> Index_open(file).hdr]

\* close(): both files are closed; their contents stay
Wal_close(st) == Resolved([st EXCEPT !.hdr = Index_close(st.hdr)], -1)

ERR_MARKER == "Invalid index file; expected file marker to be IDX$"

\* open(options): the two files are opened and the header is read from the
\* index file
Wal_open(st) ==
    LET index == Index_open(st.idx)
    IN  IF index.ok THEN Resolved([st EXCEPT !.hdr = index.hdr], -1)
        ELSE Rejected(st, ERR_MARKER)

----------------------------------------------------------------------------
(* The files by their paths: a path names a file, given by its bytes, or   *)
(* no file (Absent). RandomAccessFile.open is rejected with ENOENT when    *)
(* there is no file, and with the error of the file system (fault) when    *)
(* the file cannot be opened; RandomAccessFile.create makes an empty file  *)
(* and is rejected when there is a file.                                   *)

Absent == <<-1>>
ENOENT == "ENOENT"
EEXIST == "EEXIST"
EACCES == "EACCES"

File_open(f, fault) ==
    IF f = Absent THEN [ok |-> FALSE, err |-> ENOENT]
    ELSE IF fault # NoError THEN [ok |-> FALSE, err |-> fault]
    ELSE [ok |-> TRUE, err |-> NoError]

File_create(f) ==
    IF f # Absent THEN [ok |-> FALSE, file |-> f, err |-> EEXIST]
    ELSE [ok |-> TRUE, file |-> <<>>, err |-> NoError]

\* open(options): the log file is opened, then the index file, then the
\* header is read
Wal_openFiles(st, fault) ==
    LET l == File_open(st.log, fault)
        i == File_open(st.idx, NoError)
    IN  IF ~l.ok THEN Rejected(st, l.err)
        ELSE IF ~i.ok THEN Rejected(st, i.err)
        ELSE Wal_open(st)

\* create(options): the log file is created, then the index file, which is
\* written and opened
Wal_createFiles(st) ==
    LET l == File_create(st.log)
        st1 == [st EXCEPT !.log = l.file]
        i == File_create(st.idx)
        file == Index_create(0, 0)
    IN  IF ~l.ok THEN Rejected(st, l.err)
        ELSE IF ~i.ok THEN Rejected(st1, i.err)
        ELSE Resolved([st1 EXCEPT !.idx = file, !.hdr = Index_open(file).hdr], -1)

\* openOrCreate(options); writable is "true", "false" or "undefined"
Wal_openOrCreate(st, writable, fault) ==
    LET o == Wal_openFiles(st, fault)
    IN  IF o.ok THEN o
        ELSE IF o.err = ENOENT /\ writable = "true" THEN Wal_createFiles(st)
        ELSE o

----------------------------------------------------------------------------
(* Queue (queue.js): the array $queue and the index $offset of its head.   *)

Queue_new == [queue |-> <<>>, offset |-> 0]
Queue_length(q) == Len(q.queue) - q.offset
Queue_isEmpty(q) == Queue_length(q) = 0
Queue_enqueue(q, item) == [q EXCEPT !.queue = Append(@, item)]

\* what dequeue and peek return on an empty queue: undefined, which is no
\* item (the items are payloads, sequences of bytes)
Undefined == <<-1>>

\* Queue_dequeue slicing the array without setting the offset back to 0
Queue_dequeue_KeepsOffset(q) ==
    LET item == q.queue[q.offset + 1]
        offset == q.offset + 1
    IN  IF Queue_length(q) = 0 THEN [q |-> q, item |-> Undefined]
        ELSE IF offset * 2 >= Len(q.queue)
        THEN [q |-> [queue |-> SubSeq(q.queue, offset + 1, Len(q.queue)),
                     offset |-> IF Len(q.queue) > offset THEN 1 ELSE 0],
              item |-> item]
        ELSE [q |-> [q EXCEPT !.offset = offset], item |-> item]

\* dequeue(): the item at the head and the queue without it; the array is
\* sliced once half of it is dequeued; undefined on an empty queue.
Queue_dequeue(q) ==
    LET item == q.queue[q.offset + 1]
        offset == q.offset + 1
    IN  IF Queue_length(q) = 0 THEN [q |-> q, item |-> Undefined]
        ELSE IF offset * 2 >= Len(q.queue)
        THEN [q |-> [queue |-> SubSeq(q.queue, offset + 1, Len(q.queue)), offset |-> 0],
              item |-> item]
        ELSE [q |-> [q EXCEPT !.offset = offset], item |-> item]

Queue_peek(q) == IF Queue_length(q) > 0 THEN q.queue[q.offset + 1] ELSE Undefined

----------------------------------------------------------------------------
(* WriteAheadLog.readRange.  A record s holds the variables of the closure *)
(* (sending, ended, ready) and the Readable stream (package stream of      *)
(* Node): buffer, the chunks pushed and not yet taken by the consumer;     *)
(* reading, a _read was made and no push since; eof, push(null) was        *)
(* called; endEmitted, the stream itself emitted 'end'; seen, the events   *)
(* its consumer received, in order.                                        *)

Data(chunk) == [ev |-> "data", data |-> chunk]
End == [ev |-> "end", data |-> <<>>]
PushAfterEof == [ev |-> "error", data |-> <<>>]

RECURSIVE Bytes(_)
Bytes(chunks) == IF chunks = <<>> THEN 0 ELSE Len(Head(chunks)) + Bytes(Tail(chunks))

\* stream.push(chunk): the chunk is buffered for the consumer; the answer
\* tells whether the buffer is still below the highWaterMark
Stream_push(s, chunk) ==
    IF s.eof THEN [s |-> [s EXCEPT !.seen = Append(@, PushAfterEof)], ret |-> FALSE]
    ELSE LET buffer == Append(s.buffer, chunk)
         IN  [s |-> [s EXCEPT !.buffer = buffer, !.reading = FALSE],
              ret |-> Bytes(buffer) < HighWaterMark]

\* stream.push(null)
Stream_pushNull(s) == [s EXCEPT !.eof = TRUE, !.reading = FALSE]

\* stream.emit('end'): the listeners are called at once
Stream_emitEnd(s) == [s EXCEPT !.seen = Append(@, End)]

\* sendUntilPaused pushing whatever is queued, whether sending or not
sendUntilPaused_IgnoresPause(s) ==
    LET RECURSIVE loop(_)
        loop(t) == IF Queue_length(t.ready) > 0
                   THEN LET d == Queue_dequeue(t.ready)
                            p == Stream_push([t EXCEPT !.ready = d.q], d.item)
                        IN  loop([p.s EXCEPT !.sending = p.ret])
                   ELSE t
        s1 == loop(s)
    IN  IF s1.ended /\ Queue_isEmpty(s1.ready)
        THEN Stream_emitEnd(Stream_pushNull(s1))
        ELSE s1

sendUntilPaused(s) ==
    LET RECURSIVE loop(_)
        loop(t) == IF t.sending /\ Queue_length(t.ready) > 0
                   THEN LET d == Queue_dequeue(t.ready)
                            p == Stream_push([t EXCEPT !.ready = d.q], d.item)
                        IN  loop([p.s EXCEPT !.sending = p.ret])
                   ELSE t
        s1 == loop(s)
    IN  IF s1.ended /\ Queue_isEmpty(s1.ready)
        THEN Stream_emitEnd(Stream_pushNull(s1))
        ELSE s1

\* readyToSend dropping what the consumer has not asked for
readyToSend_DropsUnrequested(s, data) ==
    IF s.sending THEN sendUntilPaused([s EXCEPT !.ready = Queue_enqueue(@, data)])
    ELSE s

readyToSend(s, data) == sendUntilPaused([s EXCEPT !.ready = Queue_enqueue(@, data)])

clearToSend(s) == sendUntilPaused([s EXCEPT !.sending = TRUE])

\* the function that follows the last read of the range
rangeRead(s) ==
    IF Queue_isEmpty(s.ready)
    THEN Stream_emitEnd(Stream_pushNull(s))
    ELSE sendUntilPaused([s EXCEPT !.ended = TRUE])

\* readRange(first, count): count is head - first when it is not given.
\* pc tells how far the call is: "none", not made; "threw", it threw err;
\* "getRange", the index is being read; "read", entry range[k + 1] is being
\* read from the log file; "last", all entries were read; "done".
NoRange ==
    [pc |-> "none", first |-> 0, count |-> 0, err |-> NoError, range |-> <<>>, k |-> 0,
     sending |-> FALSE, ended |-> FALSE, ready |-> Queue_new,
     buffer |-> <<>>, reading |-> FALSE, eof |-> FALSE, endEmitted |-> FALSE,
     seen |-> <<>>]

Wal_readRange(st, first, omitted, count) ==
    LET n == IF omitted THEN head(st.hdr) - first ELSE count
        r == Index_getRange(st, first, n)
    IN  IF ~r.ok THEN [NoRange EXCEPT !.pc = "threw", !.first = first, !.count = n,
                                      !.err = r.err]
        ELSE [NoRange EXCEPT !.pc = "getRange", !.first = first, !.count = n]

----------------------------------------------------------------------------
(* The state machine: one log, created, on which the caller runs one       *)
(* operation after the other, each to completion (chained promises).       *)

Lsns == 0..(MaxHead - 1)
\* the LSNs callers pass to commit and truncate, and to read
LsnArgs == -1..MaxHead
ReadArgs == 0..MaxHead

\* the payloads callers write: of different lengths, two of the same length
Payloads == { <<65>>, <<66, 67>>, <<97, 98>> }

Handlers == [Lsns -> BOOLEAN]
RejectAll == [i \in Lsns |-> FALSE]

None == <<>>

Cur == [log |-> log, idx |-> idx, hdr |-> hdr]

\* what a caller sees of an open log: next, commitHead, size and the result
\* of read(i) for every i < next
View(st) ==
    [next |-> Wal_next(st), commitHead |-> Wal_commitHead(st), size |-> Wal_size(st),
     reads |-> [i \in 0..(Wal_next(st) - 1) |-> Wal_read(st, i)]]

\* what lastOp records: the operation, its argument (an LSN: arg, a payload:
\* data), how it ended (ok, res, out, err), the handler's invocations (calls);
\* for a successful truncate the payload it removed at its LSN (dropped), and
\* for a write the LSN of a successful truncate it directly follows
\* (prevTrunc, else -1) with the payload removed there; for a close, and the
\* open that follows it, what the caller saw of the log before the close
\* (view); for isCommitted its answer; for a crash the operation it
\* interrupted (during), the number of file mutations that operation had made
\* (res), the header it would have left (out), the header and the index file
\* before it (before, beforeIdx); for openOrCreate the
\* option writable and the error of the file system, if any (fault).
Op(op, arg, data, ok, res, out, err, calls) ==
    [op |-> op, arg |-> arg, data |-> data, ok |-> ok, res |-> res,
     out |-> out, err |-> err, calls |-> calls, prevTrunc |-> -1, dropped |-> None,
     view |-> None, answer |-> FALSE, during |-> "", before |-> None, beforeIdx |-> None,
     writable |-> "", fault |-> NoError]

AfterTruncate == lastOp.op = "truncate" /\ lastOp.ok

\* the entries from LSN `from` on no longer exist
Forget(s, from) == [i \in DOMAIN s |-> IF i >= from THEN None ELSE s[i]]

\* the log has not been closed (the index holds a header)
IsOpen == hdr # Null

Install(st) ==
    /\ log' = st.log
    /\ idx' = st.idx
    /\ hdr' = st.hdr

Init ==
    /\ log = Wal_create.log
    /\ idx = Wal_create.idx
    /\ hdr = Wal_create.hdr
    /\ stored = [i \in Lsns |-> None]
    /\ writeLog = <<>>
    /\ onlyWrites = TRUE
    /\ lastOp = Op("create", -1, <<>>, TRUE, -1, <<>>, NoError, <<>>)
    /\ rr = NoRange
    /\ writes = <<>>

Write ==
    /\ IsOpen
    /\ UNCHANGED <<rr, writes>>
    /\ \E data \in Payloads :
        \E r \in {Wal_write(Cur, data)} :
            /\ head(hdr) < MaxHead
            /\ Install(r.st)
            /\ stored' = IF r.ok /\ r.res \in DOMAIN stored
                         THEN [stored EXCEPT ![r.res] = data] ELSE stored
            /\ writeLog' = IF onlyWrites THEN Append(writeLog, data) ELSE <<>>
            /\ UNCHANGED onlyWrites
            /\ lastOp' = [Op("write", -1, data, r.ok, r.res, <<>>, r.err, <<>>)
                             EXCEPT !.prevTrunc = IF AfterTruncate THEN lastOp.arg ELSE -1,
                                    !.dropped = IF AfterTruncate THEN lastOp.dropped
                                                ELSE None]

Read ==
    /\ IsOpen
    /\ UNCHANGED <<rr, writes>>
    /\ \E index \in ReadArgs :
        \E r \in {Wal_read(Cur, index)} :
            /\ UNCHANGED <<log, idx, hdr, stored, writeLog, onlyWrites>>
            /\ lastOp' = Op("read", index, <<>>, r.ok, -1, r.out, r.err, <<>>)

IsCommitted ==
    /\ IsOpen
    /\ UNCHANGED <<rr, writes>>
    /\ \E index \in LsnArgs :
        /\ UNCHANGED <<log, idx, hdr, stored, writeLog, onlyWrites>>
        /\ lastOp' = [Op("isCommitted", index, <<>>, TRUE, -1, <<>>, NoError, <<>>)
                         EXCEPT !.answer = Wal_isCommitted(Cur, index)]

Commit ==
    /\ IsOpen
    /\ UNCHANGED <<rr, writes>>
    /\ \E index \in LsnArgs :
        \E r \in {Wal_commit(Cur, index)} :
            /\ Install(r.st)
            /\ UNCHANGED stored
            /\ writeLog' = <<>>
            /\ onlyWrites' = FALSE
            /\ lastOp' = Op("commit", index, <<>>, r.ok, r.res, <<>>, r.err, <<>>)

Truncate ==
    /\ IsOpen
    /\ UNCHANGED <<rr, writes>>
    /\ \E from \in LsnArgs :
        \E r \in {Wal_truncate(Cur, from)} :
            /\ Install(r.st)
            /\ stored' = IF r.ok THEN Forget(stored, from) ELSE stored
            /\ writeLog' = <<>>
            /\ onlyWrites' = FALSE
            /\ lastOp' = [Op("truncate", from, <<>>, r.ok, r.res, <<>>, r.err, <<>>)
                             EXCEPT !.dropped = IF r.ok /\ from \in DOMAIN stored
                                                THEN stored[from] ELSE None]

Recover ==
    /\ IsOpen
    /\ UNCHANGED <<rr, writes>>
    /\ \E isFalse \in BOOLEAN :
        \E fn \in (IF isFalse THEN {RejectAll} ELSE Handlers) :
            \E r \in {Wal_recover(Cur, isFalse, fn)} :
                /\ Install(r.st)
                /\ stored' = IF r.truncated >= 0 THEN Forget(stored, r.truncated)
                             ELSE stored
                /\ writeLog' = <<>>
                /\ onlyWrites' = FALSE
                /\ lastOp' = Op(IF isFalse THEN "recover(false)" ELSE "recover",
                                -1, <<>>, r.ok, -1, <<>>, r.err, r.calls)

Close ==
    /\ IsOpen
    /\ UNCHANGED <<rr, writes>>
    /\ \E r \in {Wal_close(Cur)} :
        /\ Install(r.st)
        /\ UNCHANGED stored
        /\ writeLog' = <<>>
        /\ onlyWrites' = FALSE
        /\ lastOp' = [Op("close", -1, <<>>, r.ok, r.res, <<>>, r.err, <<>>)
                         EXCEPT !.view = View(Cur)]

\* open is offered on the files of a log that was closed
Open ==
    /\ ~IsOpen
    /\ UNCHANGED <<rr, writes>>
    /\ \E r \in {Wal_open(Cur)} :
        /\ Install(r.st)
        /\ UNCHANGED <<stored, writeLog, onlyWrites>>
        /\ lastOp' = [Op("open", -1, <<>>, r.ok, r.res, <<>>, r.err, <<>>)
                         EXCEPT !.view = lastOp.view]

Next == Write \/ Read \/ IsCommitted \/ Commit \/ Truncate \/ Recover \/ Close \/ Open

Spec == Init /\ [][Next]_vars

----------------------------------------------------------------------------
(* The state machine of crashes: the process dies between two file         *)
(* mutations of an operation, which leaves the files as the mutations made *)
(* so far left them and nothing in memory; then the files are opened.      *)

Crashed == lastOp.op \in {"crash", "reopen"}

\* the handlers that answer falsy wherever recover does not ask them: for
\* the LSNs that are committed or not written
Asked(fn) ==
    \A i \in Lsns : (i <= commitHead(hdr) \/ i >= head(hdr)) => ~fn[i]

\* recover, with one handler for each way of answering what it is asked
RecoverAsked ==
    /\ IsOpen
    /\ UNCHANGED <<rr, writes>>
    /\ \E isFalse \in BOOLEAN :
        \E fn \in (IF isFalse THEN {RejectAll} ELSE {f \in Handlers : Asked(f)}) :
            \E r \in {Wal_recover(Cur, isFalse, fn)} :
                /\ Install(r.st)
                /\ stored' = IF r.truncated >= 0 THEN Forget(stored, r.truncated)
                             ELSE stored
                /\ writeLog' = <<>>
                /\ onlyWrites' = FALSE
                /\ lastOp' = Op(IF isFalse THEN "recover(false)" ELSE "recover",
                                -1, <<>>, r.ok, -1, <<>>, r.err, r.calls)

Work ==
    /\ ~Crashed
    /\ (Write \/ Commit \/ Truncate \/ RecoverAsked)

\* the operations that change the log, one after the other
SpecWork == Init /\ [][Work]_vars

\* the crash after the k-th of the mutations w, of an operation that would
\* have left the state after
CrashAt(during, arg, data, calls, w, k, after) ==
    /\ log' = w[k].log
    /\ idx' = w[k].idx
    /\ hdr' = Null
    /\ lastOp' = [Op("crash", arg, data, FALSE, k, after.hdr, NoError, calls)
                     EXCEPT !.during = during, !.before = hdr, !.beforeIdx = idx]

Crash ==
    /\ IsOpen
    /\ ~Crashed
    /\ UNCHANGED <<stored, rr, writes>>
    /\ writeLog' = <<>>
    /\ onlyWrites' = FALSE
    /\ \/ /\ head(hdr) < MaxHead
          /\ \E data \in Payloads :
                \E w \in {Wal_write_writes(Cur, data)} :
                    \E k \in 1..(Len(w) - 1) :
                        CrashAt("write", -1, data, <<>>, w, k, Wal_write(Cur, data).st)
       \/ \E from \in LsnArgs :
             \E w \in {Wal_truncate_writes(Cur, from)} :
                 \E k \in 1..(Len(w) - 1) :
                     CrashAt("truncate", from, <<>>, <<>>, w, k, Wal_truncate(Cur, from).st)
       \/ \E isFalse \in BOOLEAN :
             \E fn \in (IF isFalse THEN {RejectAll} ELSE {f \in Handlers : Asked(f)}) :
                 \E r \in {Wal_recover(Cur, isFalse, fn)} :
                     \E w \in {Wal_recover_writes(Cur, r)} :
                         \E k \in 1..(Len(w) - 1) :
                             CrashAt("recover", -1, <<>>, r.calls, w, k, r.st)

\* the files are opened after the crash; of the entries those below the
\* head found in the index file exist
Reopen ==
    /\ lastOp.op = "crash"
    /\ UNCHANGED <<rr, writes, writeLog, onlyWrites>>
    /\ \E r \in {Wal_open(Cur)} :
        /\ Install(r.st)
        /\ stored' = Forget(stored, head(r.st.hdr))
        /\ lastOp' = [lastOp EXCEPT !.op = "reopen", !.ok = r.ok]

NextCrash == Work \/ Crash \/ Reopen

SpecCrash == Init /\ [][NextCrash]_vars

----------------------------------------------------------------------------
(* The state machine of failed writes: log.write has written the payload   *)
(* and the write of the slot, the first file operation of idx.increment,   *)
(* is rejected by the file; the promise of write is rejected with that     *)
(* error, the index file and the cached header are as they were.           *)

ERR_IO == "EIO"

WriteFails ==
    /\ IsOpen
    /\ head(hdr) < MaxHead
    /\ UNCHANGED <<rr, writes, stored, onlyWrites>>
    /\ writeLog' = <<>>
    /\ \E data \in Payloads :
        \E w \in {Wal_write_writes(Cur, data)} :
            /\ Len(w) > 0
            /\ log' = w[1].log
            /\ idx' = idx
            /\ hdr' = hdr
            /\ lastOp' = Op("write", -1, data, FALSE, -1, <<>>, ERR_IO, <<>>)

NextFail == Write \/ WriteFails \/ Truncate

SpecFail == Init /\ [][NextFail]_vars

----------------------------------------------------------------------------
(* The state machine of failed header writes: the file rejects the write   *)
(* of the header field with an I/O error. commit, truncate and increment   *)
(* change the cached header before they hand it to the file, so the cached *)
(* header holds the new value when the promise is rejected. A behaviour    *)
(* has at most one such failure, and ends with it.                         *)

Index_commitFails(st, index) ==
    LET expected == commitHead(st.hdr) + 1
        header == writeInt32BE(st.hdr, index, OFS_COMMIT)
    IN  IF index < expected THEN Resolved(st, index)
        ELSE IF index # expected
        THEN Rejected(st, OutOfOrderCommit(expected, index))
        ELSE Rejected([st EXCEPT !.hdr = header], ERR_IO)

Index_truncateFails(st, from) ==
    IF ~(from > commitHead(st.hdr)) THEN Rejected(st, ERR_COMMITTED)
    ELSE IF ~(from < head(st.hdr)) THEN Rejected(st, ERR_RANGE)
    ELSE LET header == writeInt32BE(st.hdr, from, OFS_HEAD)
         IN  Rejected([st EXCEPT !.hdr = header], ERR_IO)

\* the slot is written, the write of the head is rejected
Index_incrementFails(st, offset) ==
    LET current == head(st.hdr)
        next == current + 1
        ofs == HLEN + (localizeIndex(st.hdr, next) * SIZEOF_INT)
        data == writeInt32BE(allocFill(SIZEOF_INT), offset, 0)
        idx1 == FileWrite(st.idx, ofs, data)
        header == writeInt32BE(st.hdr, next, OFS_HEAD)
    IN  Rejected([st EXCEPT !.hdr = header, !.idx = idx1], ERR_IO)

Wal_commitFails(st, index) == Index_commitFails(st, index)

Wal_truncateFails(st, from) == Index_truncateFails(st, from)

Wal_writeFails(st, data) ==
    LET h == head(st.hdr)
        first == Index_offset(st, h)
    IN  IF ~first.ok THEN first
        ELSE LET firstByte == first.res
                 st1 == [st EXCEPT !.log = FileWrite(st.log, firstByte, data)]
                 subsequentByte == FileWriteEnd(firstByte, data)
             IN  Index_incrementFails(st1, subsequentByte)

\* the file has rejected no header write so far
InSync == lastOp.err # ERR_IO

Sound ==
    /\ InSync
    /\ (Write \/ Commit \/ Truncate)

CommitFails ==
    /\ IsOpen
    /\ InSync
    /\ UNCHANGED <<rr, writes, stored>>
    /\ writeLog' = <<>>
    /\ onlyWrites' = FALSE
    /\ \E index \in LsnArgs :
        \E r \in {Wal_commitFails(Cur, index)} :
            /\ r.err = ERR_IO
            /\ Install(r.st)
            /\ lastOp' = Op("commit", index, <<>>, r.ok, r.res, <<>>, r.err, <<>>)

TruncateFails ==
    /\ IsOpen
    /\ InSync
    /\ UNCHANGED <<rr, writes, stored>>
    /\ writeLog' = <<>>
    /\ onlyWrites' = FALSE
    /\ \E from \in LsnArgs :
        \E r \in {Wal_truncateFails(Cur, from)} :
            /\ r.err = ERR_IO
            /\ Install(r.st)
            /\ lastOp' = Op("truncate", from, <<>>, r.ok, r.res, <<>>, r.err, <<>>)

WriteHeadFails ==
    /\ IsOpen
    /\ InSync
    /\ head(hdr) < MaxHead
    /\ UNCHANGED <<rr, writes, stored>>
    /\ writeLog' = <<>>
    /\ onlyWrites' = FALSE
    /\ \E data \in Payloads :
        \E r \in {Wal_writeFails(Cur, data)} :
            /\ r.err = ERR_IO
            /\ Install(r.st)
            /\ lastOp' = Op("write", -1, data, r.ok, r.res, <<>>, r.err, <<>>)

SpecIo ==
    Init /\ [][
        \/ Sound
        \/ WriteHeadFails
        \/ CommitFails
        \/ TruncateFails
    ]_vars

----------------------------------------------------------------------------
(* The state machine of recover with handlers of every kind: the handler   *)
(* accepts (directly or through an eventual, as accepts says) every entry  *)
(* it is asked about but the one at LSN at, where it answers with answer.  *)

RecoverAny ==
    /\ IsOpen
    /\ UNCHANGED <<rr, writes>>
    \* the handler is asked about commitHead + 1 .. next - 1; when there is
    \* no such LSN one handler stands for all, which are never called
    /\ \E at \in (IF commitHead(hdr) + 1 < head(hdr)
                  THEN {i \in Lsns : i > commitHead(hdr) /\ i < head(hdr)} ELSE {0}),
          answer \in (IF commitHead(hdr) + 1 < head(hdr) THEN Answers ELSE {Throws}),
          accepts \in {Value("true"), Eventual("true")} :
        \E r \in {Wal_recoverAny(Cur, [i \in Lsns |-> IF i = at THEN answer ELSE accepts])} :
            /\ Install(r.st)
            /\ stored' = IF r.truncated >= 0 THEN Forget(stored, r.truncated)
                         ELSE stored
            /\ writeLog' = <<>>
            /\ onlyWrites' = FALSE
            /\ lastOp' = Op("recover", at, <<>>, r.ok, -1, <<>>, r.err, r.calls)

SpecHandler == Init /\ [][Write \/ Commit \/ RecoverAny]_vars

----------------------------------------------------------------------------
(* read with any LSN, the negative ones included. get checks its argument  *)
(* against head only; the record it decodes may then name bytes no log     *)
(* file has (a negative offset or length), a read whose outcome is the     *)
(* file's: it resolves with no bytes (resolves) or is rejected.            *)

\* the bytes of the index file that get(index) reads, as file offsets
Index_get_reads(st, index) ==
    LET ofs == HLEN + (localizeIndex(st.hdr, index) * SIZEOF_INT)
    IN  ofs..(ofs + 2 * SIZEOF_INT - 1)

Wal_readAny(st, index, resolves) ==
    LET rec == Index_get(st, index)
    IN  IF ~rec.ok THEN [ok |-> FALSE, out |-> <<>>, err |-> rec.err]
        ELSE IF rec.offset >= 0 /\ rec.length >= 0
        THEN [ok |-> TRUE, out |-> FileRead(st.log, rec.offset, rec.length),
              err |-> NoError]
        ELSE IF resolves THEN [ok |-> TRUE, out |-> <<>>, err |-> NoError]
        ELSE [ok |-> FALSE, out |-> <<>>, err |-> ERR_IO]

ReadAny ==
    /\ IsOpen
    /\ UNCHANGED <<rr, writes>>
    /\ \E index \in -2..MaxHead, resolves \in BOOLEAN :
        \E r \in {Wal_readAny(Cur, index, resolves)} :
            /\ UNCHANGED <<log, idx, hdr, stored, writeLog, onlyWrites>>
            /\ lastOp' = Op("read", index, <<>>, r.ok, -1, r.out, r.err, <<>>)

SpecRead == Init /\ [][Write \/ Commit \/ Truncate \/ ReadAny]_vars

----------------------------------------------------------------------------
(* The state machine of openOrCreate: a log is written and closed; while   *)
(* it is closed its files may be deleted or the marker of the index file   *)
(* overwritten, and a create may have died after it created the log file;  *)
(* then openOrCreate is called on the paths.                               *)

WritableArgs == {"true", "false", "undefined"}
Faults == {NoError, EACCES}

Files(op) ==
    /\ ~IsOpen
    /\ UNCHANGED <<hdr, stored, rr, writes, writeLog, onlyWrites>>
    /\ lastOp' = Op(op, -1, <<>>, TRUE, -1, <<>>, NoError, <<>>)

RemoveLog == Files("remove log") /\ log # Absent /\ log' = Absent /\ idx' = idx

RemoveIndex == Files("remove index") /\ idx # Absent /\ idx' = Absent /\ log' = log

Corrupt ==
    /\ Files("corrupt")
    /\ idx # Absent
    /\ idx' = FileWrite(idx, OFS_MARKER, <<0>>)
    /\ log' = log

\* create died between RandomAccessFile.create and LogIndexFile.create
CreateInterrupted ==
    /\ Files("create")
    /\ log = Absent /\ idx = Absent
    /\ log' = File_create(log).file
    /\ idx' = idx

OpenOrCreate ==
    /\ ~IsOpen
    /\ UNCHANGED <<rr, writes, writeLog, onlyWrites>>
    /\ \E writable \in WritableArgs, fault \in Faults :
        \E r \in {Wal_openOrCreate(Cur, writable, fault)} :
            /\ Install(r.st)
            /\ stored' = IF r.ok THEN Forget(stored, head(r.st.hdr)) ELSE stored
            /\ lastOp' = [Op("openOrCreate", -1, <<>>, r.ok, r.res, <<>>, r.err, <<>>)
                             EXCEPT !.writable = writable, !.fault = fault]

NextOpen ==
    \/ Write
    \/ Close
    \/ RemoveLog
    \/ RemoveIndex
    \/ Corrupt
    \/ CreateInterrupted
    \/ OpenOrCreate

SpecOpen == Init /\ [][NextOpen]_vars

----------------------------------------------------------------------------
(* The state machine of Queue alone: the queue of a readRange that was not *)
(* called yet (rr.ready) takes enqueue, dequeue and peek calls in any      *)
(* order.  lastOp records each call: the item passed (data) or returned    *)
(* (out), the length (res) and isEmpty (answer) read after it, and in view *)
(* the history of the queue: the items enqueued and not yet dequeued.      *)

MaxQueue == 4

QueueOp(op, item, out, q, fifo) ==
    [Op(op, -1, item, TRUE, Queue_length(q), out, NoError, <<>>)
        EXCEPT !.view = fifo, !.answer = Queue_isEmpty(q)]

Enqueue ==
    /\ rr.pc = "none"
    /\ Queue_length(rr.ready) < MaxQueue
    /\ \E item \in Payloads :
        \E q \in {Queue_enqueue(rr.ready, item)} :
            /\ rr' = [rr EXCEPT !.ready = q]
            /\ lastOp' = QueueOp("enqueue", item, <<>>, q, Append(lastOp.view, item))
    /\ UNCHANGED <<log, idx, hdr, stored, writeLog, onlyWrites, writes>>

Dequeue ==
    /\ rr.pc = "none"
    /\ \E d \in {Queue_dequeue(rr.ready)} :
        /\ rr' = [rr EXCEPT !.ready = d.q]
        /\ lastOp' = QueueOp("dequeue", <<>>, d.item, d.q,
                             IF lastOp.view = <<>> THEN <<>> ELSE Tail(lastOp.view))
    /\ UNCHANGED <<log, idx, hdr, stored, writeLog, onlyWrites, writes>>

Peek ==
    /\ rr.pc = "none"
    /\ lastOp' = QueueOp("peek", <<>>, Queue_peek(rr.ready), rr.ready, lastOp.view)
    /\ UNCHANGED <<log, idx, hdr, stored, writeLog, onlyWrites, rr, writes>>

SpecQueue == Init /\ [][Enqueue \/ Dequeue \/ Peek]_vars

----------------------------------------------------------------------------
(* The state machine of writes that are not chained: after writes made one *)
(* after the other, a write is launched and, before it has completed, a    *)
(* second one. Each goes through the steps of write and increment: the     *)
(* head is read from the cached header when the write is called ("offset": *)
(* idx.offset(head) reads the slot of head), then the payload is written   *)
(* to the log file ("log"), then increment reads the cached head again and *)
(* writes the next slot ("slot"), then it advances the cached head and     *)
(* flushes it ("header"), then the write resolves ("done"). A step is the  *)
(* completion of one file operation; the file operations of the two writes *)
(* complete in any order.                                                  *)

Chained == writes = <<>> /\ Write

Launch ==
    /\ IsOpen
    /\ Len(writes) < 2
    /\ writes # <<>> => writes[1].pc # "done"
    /\ \E data \in Payloads :
        \* after is how far the first write was then; last tells whether the
        \* payload was written after the other write's
        writes' = Append(writes,
                         [pc |-> "offset", data |-> data, head |-> head(hdr),
                          firstByte |-> -1, subsequentByte |-> -1, current |-> -1,
                          next |-> -1, res |-> -1,
                          after |-> IF writes = <<>> THEN "none" ELSE writes[1].pc,
                          last |-> FALSE])
    /\ UNCHANGED <<log, idx, hdr, stored, writeLog, onlyWrites, lastOp, rr>>

\* idx.offset(head) resolves with firstByte; log.write(firstByte, data) is made
OffsetDone(i) ==
    /\ i \in DOMAIN writes
    /\ writes[i].pc = "offset"
    /\ writes' = [writes EXCEPT ![i].pc = "log",
                                ![i].firstByte = Index_offset(Cur, writes[i].head).res]
    /\ UNCHANGED <<log, idx, hdr, stored, writeLog, onlyWrites, lastOp, rr>>

\* log.write resolves with subsequentByte; idx.increment(subsequentByte)
\* reads the head and writes the slot after it
LogWriteDone(i) ==
    /\ i \in DOMAIN writes
    /\ writes[i].pc = "log"
    /\ log' = FileWrite(log, writes[i].firstByte, writes[i].data)
    /\ writes' = [writes EXCEPT
                    ![i].pc = "slot",
                    ![i].subsequentByte = FileWriteEnd(writes[i].firstByte, writes[i].data),
                    ![i].current = head(hdr),
                    ![i].next = head(hdr) + 1,
                    ![i].last = \E j \in DOMAIN writes :
                                    j # i /\ writes[j].pc \in {"slot", "header", "done"}]
    /\ UNCHANGED <<idx, hdr, stored, writeLog, onlyWrites, lastOp, rr>>

\* SlotWriteDone leaving the cached head as it is
SlotWriteDone_HeadStays(i) ==
    /\ i \in DOMAIN writes
    /\ writes[i].pc = "slot"
    /\ idx' = FileWrite(idx, HLEN + (localizeIndex(hdr, writes[i].next) * SIZEOF_INT),
                        writeInt32BE(allocFill(SIZEOF_INT), writes[i].subsequentByte, 0))
    /\ hdr' = hdr
    /\ writes' = [writes EXCEPT ![i].pc = "header"]
    /\ UNCHANGED <<log, stored, writeLog, onlyWrites, lastOp, rr>>

\* the write of the slot resolves: the cached head is advanced and its
\* flush is made
SlotWriteDone(i) ==
    /\ i \in DOMAIN writes
    /\ writes[i].pc = "slot"
    /\ idx' = FileWrite(idx, HLEN + (localizeIndex(hdr, writes[i].next) * SIZEOF_INT),
                        writeInt32BE(allocFill(SIZEOF_INT), writes[i].subsequentByte, 0))
    /\ hdr' = writeInt32BE(hdr, writes[i].next, OFS_HEAD)
    /\ writes' = [writes EXCEPT ![i].pc = "header"]
    /\ UNCHANGED <<log, stored, writeLog, onlyWrites, lastOp, rr>>

\* the flush of the head, which writes what the cached header holds,
\* resolves: the write resolves with current
HeadWriteDone(i) ==
    /\ i \in DOMAIN writes
    /\ writes[i].pc = "header"
    /\ idx' = FileWrite(idx, OFS_HEAD, HeaderField(hdr, OFS_HEAD))
    /\ writes' = [writes EXCEPT ![i].pc = "done", ![i].res = writes[i].current]
    /\ UNCHANGED <<log, hdr, stored, writeLog, onlyWrites, lastOp, rr>>

SpecWrites ==
    Init /\ [][
        \/ Chained
        \/ Launch
        \/ \E i \in 1..2 : OffsetDone(i)
        \/ \E i \in 1..2 : LogWriteDone(i)
        \/ \E i \in 1..2 : SlotWriteDone(i)
        \/ \E i \in 1..2 : HeadWriteDone(i)
    ]_vars

----------------------------------------------------------------------------
(* The state machine of readRange: on a log that writes and truncates have *)
(* filled, one readRange is made; its file reads complete one after the    *)
(* other while the stream asks for data (_read), its consumer takes the    *)
(* chunks the stream buffers, and no other operation is made on the log.   *)

FirstArgs == 0..MaxHead
CountArgs == 0..MaxHead

Streaming == rr.pc \in {"getRange", "read", "last", "done"}

Fill ==
    /\ rr.pc = "none"
    /\ (Write \/ Truncate)

ReadRange ==
    /\ rr.pc = "none"
    /\ IsOpen
    /\ \E first \in FirstArgs, omitted \in BOOLEAN :
        \E count \in (IF omitted THEN {0} ELSE CountArgs) :
            rr' = Wal_readRange(Cur, first, omitted, count)
    /\ UNCHANGED <<log, idx, hdr, stored, writeLog, onlyWrites, lastOp, writes>>

\* getRange's read of the index file completes: the first read of the log
\* file is made, or none if the range is empty
GetRangeDone ==
    /\ rr.pc = "getRange"
    /\ \E r \in {Index_getRange(Cur, rr.first, rr.count)} :
        rr' = [rr EXCEPT !.range = r.range,
                         !.pc = IF r.range = <<>> THEN "last" ELSE "read"]
    /\ UNCHANGED <<log, idx, hdr, stored, writeLog, onlyWrites, lastOp, writes>>

\* a read of the log file completes: readyToSend is called with its bytes
\* and the next read is made
LogReadDone ==
    /\ rr.pc = "read"
    /\ \E rec \in {rr.range[rr.k + 1]} :
        \E s \in {readyToSend(rr, FileRead(log, rec.offset, rec.length))} :
            rr' = [s EXCEPT !.k = rr.k + 1,
                            !.pc = IF rr.k + 1 = Len(rr.range) THEN "last" ELSE "read"]
    /\ UNCHANGED <<log, idx, hdr, stored, writeLog, onlyWrites, lastOp, writes>>

RangeRead ==
    /\ rr.pc = "last"
    /\ \E s \in {rangeRead(rr)} : rr' = [s EXCEPT !.pc = "done"]
    /\ UNCHANGED <<log, idx, hdr, stored, writeLog, onlyWrites, lastOp, writes>>

\* the stream calls _read, which is clearToSend: it does so for a consumer
\* that wants data, while it buffers less than the highWaterMark, has not
\* been told the end and is not waiting for the push of an earlier _read
StreamRead ==
    /\ Streaming
    /\ ~rr.eof /\ ~rr.reading
    /\ Bytes(rr.buffer) < HighWaterMark
    /\ \E s \in {clearToSend([rr EXCEPT !.reading = TRUE])} : rr' = s
    /\ UNCHANGED <<log, idx, hdr, stored, writeLog, onlyWrites, lastOp, writes>>

\* the consumer receives the chunk at the head of the stream's buffer
Deliver ==
    /\ Streaming
    /\ rr.buffer # <<>>
    /\ rr' = [rr EXCEPT !.buffer = Tail(@), !.seen = Append(@, Data(Head(rr.buffer)))]
    /\ UNCHANGED <<log, idx, hdr, stored, writeLog, onlyWrites, lastOp, writes>>

\* the stream emits 'end' itself once push(null) was called and its buffer
\* is empty
StreamEnd ==
    /\ Streaming
    /\ rr.eof /\ ~rr.endEmitted
    /\ rr.buffer = <<>>
    /\ rr' = [rr EXCEPT !.endEmitted = TRUE, !.seen = Append(@, End)]
    /\ UNCHANGED <<log, idx, hdr, stored, writeLog, onlyWrites, lastOp, writes>>

NextRange ==
    Fill \/ ReadRange \/ GetRangeDone \/ LogReadDone \/ RangeRead
         \/ StreamRead \/ Deliver \/ StreamEnd

SpecRange == Init /\ [][NextRange]_vars

----------------------------------------------------------------------------
(* Properties.  A step that leaves lastOp' = an operation is a step of     *)
(* that operation: unprimed variables are the log before it, primed ones   *)
(* the log after it.                                                       *)

\* the total length of the payloads s[0], ..., s[n]
RECURSIVE SumLen(_, _)
SumLen(s, n) == IF n < 0 THEN 0 ELSE Len(s[n]) + SumLen(s, n - 1)

Did(op) == lastOp'.op = op

\* C1: on a new log on which only writes (and reads) were made, one after
\* the other, read(i) returns for every i the payload of the i-th write,
\* byte for byte.
C1_ReadReturnsWritten ==
    onlyWrites =>
        /\ \A i \in 0..(Len(writeLog) - 1) :
              /\ Wal_read(Cur, i).ok
              /\ Wal_read(Cur, i).out = writeLog[i + 1]
        /\ (lastOp.op = "read" /\ lastOp.arg < Len(writeLog)) =>
              (lastOp.ok /\ lastOp.out = writeLog[lastOp.arg + 1])

C1_Witness ==
    /\ onlyWrites
    /\ Len(writeLog) = 3
    /\ writeLog[1] # writeLog[2]
    /\ Len(writeLog[1]) # Len(writeLog[3])
    /\ lastOp.op = "read" /\ lastOp.arg = 2 /\ lastOp.ok
    /\ lastOp.out = writeLog[3]

\* C2: a write that resolves returns the value next had when it started (0
\* for the first write on a new log); after it next = L + 1, size is the
\* total length of the payloads of entries 0..L, and commitHead is unchanged.
C2_WriteReturnsNext ==
    [][ (Did("write") /\ lastOp'.ok) =>
            /\ lastOp'.res = Wal_next(Cur)
            /\ (lastOp.op = "create" => lastOp'.res = 0)
            /\ Wal_next(Cur') = lastOp'.res + 1
            /\ Wal_size(Cur') = SumLen(stored', lastOp'.res)
            /\ Wal_commitHead(Cur') = Wal_commitHead(Cur) ]_vars

C2_Witness ==
    /\ lastOp.op = "write" /\ lastOp.ok /\ lastOp.res = 2
    /\ Wal_next(Cur) = 3
    /\ Wal_size(Cur) = 5
    /\ Wal_commitHead(Cur) = 0

\* every entry of the log before the step reads the same after it
EntriesUnchanged ==
    \A i \in 0..(Wal_next(Cur) - 1) : Wal_read(Cur', i) = Wal_read(Cur, i)

\* C3: commit(L) with L = commitHead + 1 resolves with L and sets
\* commitHead = L, leaving next, size and every entry unchanged; a new log
\* has commitHead = -1, so committing 0, 1, ..., k in order leaves
\* commitHead = k.
C3_CommitInOrder ==
    /\ Wal_commitHead(Cur) = -1
    /\ [][ (Did("commit") /\ lastOp'.arg = Wal_commitHead(Cur) + 1) =>
              /\ lastOp'.ok
              /\ lastOp'.res = lastOp'.arg
              /\ Wal_commitHead(Cur') = lastOp'.arg
              /\ Wal_next(Cur') = Wal_next(Cur)
              /\ Wal_size(Cur') = Wal_size(Cur)
              /\ log' = log
              /\ EntriesUnchanged ]_vars

C3_Witness ==
    /\ lastOp.op = "commit" /\ lastOp.ok /\ lastOp.arg = 2 /\ lastOp.res = 2
    /\ Wal_commitHead(Cur) = 2
    /\ Wal_next(Cur) = 3

\* the message the documentation gives for a commit out of order
C4_Message(E, L) ==
    "Out of order commit; expected " \o ToString(E) \o " but received "
        \o ToString(L) \o "."

\* C4: commit(L) with L > commitHead + 1 fails with 'Out of order commit;
\* expected E but received L.', E = commitHead + 1, changes neither the
\* cached header nor the index file, and a following commit(E) succeeds.
C4_CommitOutOfOrder ==
    [][ /\ (Did("commit") /\ lastOp'.arg > Wal_commitHead(Cur) + 1) =>
              /\ ~lastOp'.ok
              /\ lastOp'.err = C4_Message(Wal_commitHead(Cur) + 1, lastOp'.arg)
              /\ hdr' = hdr
              /\ idx' = idx
              /\ Wal_commit(Cur', Wal_commitHead(Cur) + 1).ok
        /\ (lastOp.op = "commit" /\ ~lastOp.ok /\ Did("commit")
                /\ lastOp'.arg = Wal_commitHead(Cur) + 1) =>
              /\ lastOp'.ok
              /\ Wal_commitHead(Cur') = lastOp'.arg ]_vars

C4_Witness ==
    /\ lastOp.op = "commit" /\ ~lastOp.ok /\ lastOp.arg = 2
    /\ lastOp.err = "Out of order commit; expected 1 but received 2."
    /\ Wal_commitHead(Cur) = 0
    /\ Wal_next(Cur) = 3

\* C5: a committed LSN is never re-issued: no write returns an LSN that is
\* less than or equal to commitHead.
C5_CommittedLsnNotReissued ==
    (lastOp.op = "write" /\ lastOp.ok) => lastOp.res > Wal_commitHead(Cur)

\* C6: commitHead is -1 or lies in base .. head - 1.
C6_CommitHeadInRange ==
    IsOpen =>
        \/ Wal_commitHead(Cur) = -1
        \/ /\ baseIndex(hdr) <= Wal_commitHead(Cur)
           /\ Wal_commitHead(Cur) <= head(hdr) - 1

TruncateRefused(msg) ==
    /\ ~lastOp'.ok
    /\ lastOp'.err = msg
    /\ Wal_next(Cur') = Wal_next(Cur)
    /\ Wal_commitHead(Cur') = Wal_commitHead(Cur)
    /\ Wal_size(Cur') = Wal_size(Cur)
    /\ log' = log
    /\ idx' = idx
    /\ \A data \in Payloads : Wal_write(Cur', data).res = Wal_next(Cur)

\* C8: truncate(T) fails with 'cannot truncate a committed log entry' when
\* T <= commitHead and with 'index out of range' when T >= next; next,
\* commitHead, size and both files are unchanged, and the next write returns
\* the old value of next.
C8_TruncateRefused ==
    [][ Did("truncate") =>
            /\ lastOp'.arg <= Wal_commitHead(Cur) =>
                  TruncateRefused("cannot truncate a committed log entry")
            /\ lastOp'.arg >= Wal_next(Cur) =>
                  TruncateRefused("index out of range") ]_vars

\* C9: the write that follows a successful truncate(T) returns T and leaves
\* commitHead unchanged, and read(T) then returns the payload just written.
C9_TruncatedLsnReissued ==
    [][ (lastOp.op = "truncate" /\ lastOp.ok /\ Did("write")) =>
            /\ lastOp'.ok
            /\ lastOp'.res = lastOp.arg
            /\ lastOp'.prevTrunc = lastOp.arg
            /\ Wal_commitHead(Cur') = Wal_commitHead(Cur)
            /\ Wal_read(Cur', lastOp.arg).ok
            /\ Wal_read(Cur', lastOp.arg).out = lastOp'.data ]_vars

C9_Witness ==
    /\ lastOp.op = "write" /\ lastOp.ok
    /\ lastOp.prevTrunc = 1 /\ lastOp.res = 1
    /\ lastOp.dropped # None
    /\ lastOp.dropped # lastOp.data
    /\ Len(lastOp.dropped) # Len(lastOp.data)
    /\ Wal_read(Cur, 1).out = lastOp.data
    /\ Wal_commitHead(Cur) = 0

\* C10: recover(false) on a log with commitHead + 1 < next resolves, commits
\* nothing and removes every uncommitted entry: after it next =
\* commitHead + 1, commitHead is what it was, and size is the total length of
\* the committed entries.
C10_RecoverFalseDiscards ==
    [][ (Did("recover(false)") /\ Wal_commitHead(Cur) + 1 < Wal_next(Cur)) =>
            /\ lastOp'.ok
            /\ Wal_next(Cur') = Wal_commitHead(Cur) + 1
            /\ Wal_commitHead(Cur') = Wal_commitHead(Cur)
            /\ Wal_size(Cur') = SumLen(stored, Wal_commitHead(Cur))
            /\ \A i \in 0..Wal_commitHead(Cur) :
                  Wal_read(Cur', i).out = stored[i] ]_vars

C10_Witness ==
    /\ lastOp.op = "recover(false)" /\ lastOp.ok
    /\ Len(lastOp.calls) = 1 /\ lastOp.calls[1].lsn = 1
    /\ Wal_next(Cur) = 1
    /\ Wal_commitHead(Cur) = 0
    /\ Wal_size(Cur) = Len(stored[0])
    /\ Len(idx) = HLEN + 4 * SIZEOF_INT

DidRecover == Did("recover") \/ Did("recover(false)")
WasRecover == lastOp.op = "recover" \/ lastOp.op = "recover(false)"

\* the handler answered truthy in every invocation of the recover that ended
AllTruthy(calls) == \A k \in 1..Len(calls) : Truthy(calls[k].answer)

\* C11: recover invokes the handler for commitHead + 1, commitHead + 2, ...
\* in this order, each LSN once, none outside commitHead + 1 .. next - 1 (as
\* they were when recover started), each time with the payload stored at the
\* LSN; it goes on while the answers are truthy, then to the last
\* uncommitted entry.
C11_HandlerCalls ==
    [][ DidRecover =>
          LET C == Wal_commitHead(Cur)
              H == Wal_next(Cur)
              calls == lastOp'.calls
              n == Len(calls)
          IN  /\ \A k \in 1..n :
                    /\ calls[k].lsn = C + k
                    /\ calls[k].lsn >= C + 1
                    /\ calls[k].lsn <= H - 1
                    /\ calls[k].data = stored[calls[k].lsn]
                    /\ k < n => Truthy(calls[k].answer)
              /\ (C + 1 < H) => n >= 1
              /\ (C + 1 < H /\ AllTruthy(calls)) => n = H - 1 - C ]_vars

C11_Witness ==
    /\ lastOp.op = "recover"
    /\ Len(lastOp.calls) = 3
    /\ AllTruthy(lastOp.calls)
    /\ lastOp.calls[1].lsn = 0 /\ lastOp.calls[3].lsn = 2
    /\ lastOp.calls[1].data # lastOp.calls[2].data
    /\ lastOp.calls[3].data = stored[2]

\* C12: with C = commitHead when recover starts, truthy answers for
\* C+1..L-1 and a falsy one for L, recover commits C+1, ..., L-1 in this
\* order and nothing else, truncates the log at L, invokes the handler for
\* no LSN above L and ends with next = L and commitHead = L - 1.
C12_FirstFalsyTruncates ==
    [][ (DidRecover /\ Len(lastOp'.calls) >= 1
                    /\ ~Truthy(lastOp'.calls[Len(lastOp'.calls)].answer)) =>
          LET C == Wal_commitHead(Cur)
              calls == lastOp'.calls
              n == Len(calls)
              L == calls[n].lsn
          IN  /\ lastOp'.ok
              /\ \A k \in 1..(n - 1) : calls[k].committed = C + k
              /\ calls[n].committed = -1
              /\ \A k \in 1..n : calls[k].lsn <= L
              /\ Wal_next(Cur') = L
              /\ Wal_commitHead(Cur') = L - 1
              /\ Wal_size(Cur') = SumLen(stored, L - 1)
              /\ stored' = Forget(stored, L)
              /\ \A i \in 0..(L - 1) : Wal_read(Cur', i).out = stored[i] ]_vars

C12_Witness ==
    /\ lastOp.op = "recover" /\ lastOp.ok
    /\ Len(lastOp.calls) = 2
    /\ lastOp.calls[1].lsn = 1 /\ Truthy(lastOp.calls[1].answer)
    /\ lastOp.calls[1].committed = 1
    /\ lastOp.calls[2].lsn = 2 /\ ~Truthy(lastOp.calls[2].answer)
    /\ Wal_next(Cur) = 2
    /\ Wal_commitHead(Cur) = 1

\* C13: recover with a handler that answers truthy for every uncommitted
\* entry resolves, leaving next unchanged and commitHead = next - 1.
C13_AllTruthyResolves ==
    [][ (DidRecover /\ Wal_commitHead(Cur) + 1 < Wal_next(Cur)
                    /\ AllTruthy(lastOp'.calls)) =>
            /\ lastOp'.ok
            /\ Wal_next(Cur') = Wal_next(Cur)
            /\ Wal_commitHead(Cur') = Wal_next(Cur') - 1 ]_vars

\* C14: when a recover has ended, next - 1 = commitHead.
C14_RecoveredAllCommitted ==
    WasRecover => Wal_next(Cur) - 1 = Wal_commitHead(Cur)

\* C15: called with commitHead + 1 >= next, recover resolves without
\* invoking the handler and changes neither next, commitHead, size nor
\* either file.
C15_RecoverNothingToDo ==
    [][ (DidRecover /\ Wal_commitHead(Cur) + 1 >= Wal_next(Cur)) =>
            /\ lastOp'.ok
            /\ lastOp'.calls = <<>>
            /\ Wal_next(Cur') = Wal_next(Cur)
            /\ Wal_commitHead(Cur') = Wal_commitHead(Cur)
            /\ Wal_size(Cur') = Wal_size(Cur)
            /\ log' = log
            /\ idx' = idx
            /\ hdr' = hdr ]_vars

C15_Witness ==
    /\ lastOp.op = "recover" /\ lastOp.ok
    /\ lastOp.calls = <<>>
    /\ Wal_next(Cur) = 2
    /\ Wal_commitHead(Cur) = 1
    /\ Wal_size(Cur) = 3

\* the offset stored in the index slot of LSN L
O(L) == Index_offset(Cur, L).res

\* C17: after close and then open of the same files, next, commitHead, size
\* and the result of read(i) for every i < next are what they were just
\* before the close.
C17_CloseOpenKeeps ==
    lastOp.op = "open" => (lastOp.ok /\ IsOpen /\ View(Cur) = lastOp.view)

C17_Witness ==
    /\ lastOp.op = "open" /\ lastOp.ok
    /\ Wal_next(Cur) = 2
    /\ Wal_commitHead(Cur) = 0
    /\ Wal_size(Cur) = 3
    /\ lastOp.view.reads[1].out = stored[1]
    /\ Len(idx) > HLEN + 3 * SIZEOF_INT

\* C18: between operations the size of the log file is O(head), the offset
\* stored in the index slot of head.
C18_SizeIsOffsetOfHead ==
    IsOpen => Wal_size(Cur) = O(head(hdr))

C18_Witness ==
    /\ lastOp.op = "write" /\ lastOp.prevTrunc = 1
    /\ head(hdr) = 2
    /\ Wal_size(Cur) = 2
    /\ O(head(hdr)) = 2

\* C19: between operations the index file is 16 + (head - base + 1) * 4
\* bytes long.
C19_IndexLength ==
    IsOpen => Len(idx) = HLEN + (head(hdr) - baseIndex(hdr) + 1) * SIZEOF_INT

IndexLengthExact(file, h) ==
    Len(file) = HLEN + (head(h) - baseIndex(h) + 1) * SIZEOF_INT

\* C19, amended: the index file is at least 16 + (head - base + 1) * 4 bytes
\* long; it is exactly that long after create, a write or a commit keeps it
\* exactly that long, and a truncate and a recover leave the file's length
\* as it is, also when they lower head.
C19_IndexLengthAtLeast ==
    /\ IndexLengthExact(Wal_create.idx, Wal_create.hdr)
    /\ [][ (IsOpen /\ IsOpen') =>
            /\ Len(idx') >= HLEN + (head(hdr') - baseIndex(hdr') + 1) * SIZEOF_INT
            /\ (IndexLengthExact(idx, hdr) /\ (Did("write") \/ Did("commit")))
                   => IndexLengthExact(idx', hdr')
            /\ (Did("truncate") \/ DidRecover) => Len(idx') = Len(idx) ]_vars

C19_Witness ==
    /\ lastOp.op = "truncate" /\ lastOp.ok /\ lastOp.arg = 1
    /\ head(hdr) = 1
    /\ Len(idx) = HLEN + 4 * SIZEOF_INT

\* C20: the offsets in the index do not decrease over base .. head, and
\* O(L) < O(L + 1) when entry L is not empty: entry L occupies the bytes
\* from O(L) up to O(L + 1) of the log file, the entries lie one after the
\* other in the order of their LSNs, from byte 0 to the end of the file.
C20_OffsetsIncrease ==
    IsOpen =>
        /\ O(baseIndex(hdr)) = 0
        /\ \A L \in baseIndex(hdr)..(head(hdr) - 1) :
              /\ O(L) <= O(L + 1)
              /\ stored[L] # <<>> => O(L) < O(L + 1)
              /\ Index_get(Cur, L).offset = O(L)
              /\ Index_get(Cur, L).offset + Index_get(Cur, L).length = O(L + 1)
              /\ Index_get(Cur, L).length = Len(stored[L])
        /\ O(head(hdr)) = Len(log)

C20_Witness ==
    /\ lastOp.op = "write" /\ lastOp.prevTrunc = 2
    /\ head(hdr) = 3
    /\ O(0) = 0 /\ O(1) = 2 /\ O(2) = 3 /\ O(3) = 5

\* the payloads of LSNs first .. first + count - 1
RECURSIVE Expected(_, _)
Expected(first, count) ==
    IF count <= 0 THEN <<>>
    ELSE Expected(first, count - 1) \o <<Data(stored[first + count - 1])>>

IsPrefix(a, b) == Len(a) <= Len(b) /\ a = SubSeq(b, 1, Len(a))

IsData(e) == e.ev = "data"

\* C16: the consumer of readRange(first, count), for first < next and
\* 0 <= count <= next - first (count = next - first when not given),
\* receives the payloads of LSNs first, ..., first + count - 1 in this order
\* and nothing else, is told the end only after all of them, and receives
\* no item after it was told the end.
C16_RangeDelivers ==
    Streaming =>
        /\ IsPrefix(SelectSeq(rr.seen, IsData), Expected(rr.first, rr.count))
        /\ \A i \in 1..Len(rr.seen) :
              rr.seen[i] = End =>
                  /\ Len(SelectSeq(SubSeq(rr.seen, 1, i), IsData)) = rr.count
                  /\ \A j \in (i + 1)..Len(rr.seen) : ~IsData(rr.seen[j])

\* C21: commit(L) with L < commitHead + 1 (also L below base or negative)
\* resolves with L and leaves both files and the cached header, hence
\* commitHead, next and size, as they were.
C21_CommitAgain ==
    [][ (Did("commit") /\ lastOp'.arg < Wal_commitHead(Cur) + 1) =>
            /\ lastOp'.ok
            /\ lastOp'.res = lastOp'.arg
            /\ log' = log
            /\ idx' = idx
            /\ hdr' = hdr
            /\ Wal_commitHead(Cur') = Wal_commitHead(Cur)
            /\ Wal_next(Cur') = Wal_next(Cur)
            /\ Wal_size(Cur') = Wal_size(Cur) ]_vars

C21_Witness ==
    /\ lastOp.op = "commit" /\ lastOp.ok
    /\ lastOp.arg = 0 /\ lastOp.res = 0
    /\ Wal_commitHead(Cur) = 1
    /\ Wal_next(Cur) = 3

\* C22: isCommitted(L) tells whether LSN L has been committed: for an entry
\* L of the log (base <= L < next) it answers true exactly when
\* L <= commitHead.
C22_IsCommittedTellsCommitted ==
    (/\ lastOp.op = "isCommitted"
     /\ baseIndex(hdr) <= lastOp.arg
     /\ lastOp.arg < head(hdr))
        => (lastOp.answer <=> (lastOp.arg <= commitHead(hdr)))

C24_NewLog ==
    lastOp.op = "create" =>
        /\ Wal_next(Cur) = 0
        /\ Wal_commitHead(Cur) = -1
        /\ Wal_size(Cur) = 0
        /\ Index_open(idx).ok
        /\ baseIndex(Index_open(idx).hdr) = 0
        /\ head(Index_open(idx).hdr) = 0
        /\ commitHead(Index_open(idx).hdr) = -1
        /\ Len(idx) = HLEN + SIZEOF_INT
        /\ readInt32BE(FileRead(idx, HLEN, SIZEOF_INT), 0) = 0

C24_Witness ==
    /\ lastOp.op = "create"
    /\ IsOpen
    /\ SubSeq(idx, 1, 4) = MARKER
    /\ log = <<>>

\* C27: an entry L that is written and committed (L <= commitHead,
\* L < next) stays so and reads as the same bytes after every operation.
C27_CommittedEntryKept ==
    [][ IsOpen =>
          \A L \in Lsns :
              (L <= commitHead(hdr) /\ L < head(hdr)) =>
                  \E before \in {Wal_read(Cur, L)}, after \in {Wal_read(Cur', L)} :
                      /\ before.ok
                      /\ before.out = stored[L]
                      /\ stored'[L] = stored[L]
                      /\ L <= commitHead(hdr') /\ L < head(hdr')
                      /\ after.ok
                      /\ after.out = before.out ]_vars

C27_Witness ==
    /\ lastOp.op = "write" /\ lastOp.ok /\ lastOp.res = 1
    /\ lastOp.prevTrunc = 1
    /\ commitHead(hdr) = 0
    /\ head(hdr) = 2
    /\ Len(idx) > HLEN + 3 * SIZEOF_INT
    /\ stored[0] = <<66, 67>>
    /\ Wal_read(Cur, 0).ok /\ Wal_read(Cur, 0).out = <<66, 67>>

\* the index file has the slots of base .. head
SlotsCover(st) ==
    Len(st.idx) >= HLEN + (localizeIndex(st.hdr, head(st.hdr)) + 1) * SIZEOF_INT

\* the files were opened after a crash
Reopened == lastOp.op = "reopen"

\* C26: after a crash between two file mutations of a write, truncate or
\* recover and the opening of the files, head and commit each have the
\* value they had before the operation or the one it would have left,
\* O(head) <= the size of the log file, and every entry below head reads as
\* the payload last written at its LSN.
C26_CrashBeforeOrAfter ==
    Reopened =>
        /\ lastOp.ok
        /\ head(hdr) \in {head(lastOp.before), head(lastOp.out)}
        /\ commitHead(hdr) \in {commitHead(lastOp.before), commitHead(lastOp.out)}
        /\ SlotsCover(Cur)
        /\ O(head(hdr)) <= Len(log)
        /\ \A L \in 0..(head(hdr) - 1) :
              Wal_read(Cur, L).ok /\ Wal_read(Cur, L).out = stored[L]

\* C26, amended: as C26, but commit may also have a value between the one
\* it had before the operation and the one the operation would have left
\* (recover commits one entry after the other).
C26_CrashBetween ==
    Reopened =>
        /\ lastOp.ok
        /\ head(hdr) \in {head(lastOp.before), head(lastOp.out)}
        /\ commitHead(hdr) \in commitHead(lastOp.before)..commitHead(lastOp.out)
        /\ lastOp.during # "recover" =>
              commitHead(hdr) \in {commitHead(lastOp.before), commitHead(lastOp.out)}
        /\ SlotsCover(Cur)
        /\ O(head(hdr)) <= Len(log)
        /\ \A L \in 0..(head(hdr) - 1) :
              Wal_read(Cur, L).ok /\ Wal_read(Cur, L).out = stored[L]

C26_Witness ==
    /\ Reopened /\ lastOp.ok
    /\ lastOp.during = "recover" /\ lastOp.res = 1
    /\ Len(lastOp.calls) = 3
    /\ commitHead(lastOp.before) = -1
    /\ commitHead(hdr) = 0
    /\ commitHead(lastOp.out) = 1
    /\ head(hdr) = 3

\* C28: after a crash between increment's write of the slot of head + 1
\* and its flush of the new head, and the opening of the files, head has
\* its old value, the entry does not exist, and every slot in base .. head
\* holds the offset it held before the write.
C28_CrashInIncrement ==
    (Reopened /\ lastOp.during = "write" /\ lastOp.res = 2) =>
        /\ lastOp.ok
        /\ hdr = lastOp.before
        /\ head(hdr) = head(lastOp.out) - 1
        /\ ~Wal_read(Cur, head(hdr)).ok
        /\ SlotsCover(Cur)
        /\ \A L \in baseIndex(hdr)..head(hdr) :
              Index_offset(Cur, L).res
                  = Index_offset([Cur EXCEPT !.idx = lastOp.beforeIdx], L).res
        /\ \A L \in baseIndex(hdr)..(head(hdr) - 1) :
              Wal_read(Cur, L).ok /\ Wal_read(Cur, L).out = stored[L]
        /\ Len(idx) >= HLEN + (localizeIndex(hdr, head(hdr) + 1) + 1) * SIZEOF_INT
        /\ readInt32BE(FileRead(idx, HLEN + (localizeIndex(hdr, head(hdr) + 1)
                                             * SIZEOF_INT), SIZEOF_INT), 0)
              = O(head(hdr)) + Len(lastOp.data)

C28_Witness ==
    /\ Reopened /\ lastOp.ok
    /\ lastOp.during = "write" /\ lastOp.res = 2
    /\ head(hdr) = 2
    /\ head(lastOp.out) = 3
    /\ Len(idx) = HLEN + 4 * SIZEOF_INT
    /\ Len(log) = 5

\* a mutation that changes bytes of the header of the index file and
\* nothing else
IsHeaderWrite(before, after) ==
    /\ after.log = before.log
    /\ after.idx # before.idx
    /\ Len(after.idx) = Len(before.idx)
    /\ SubSeq(after.idx, HLEN + 1, Len(after.idx))
           = SubSeq(before.idx, HLEN + 1, Len(before.idx))

\* the last of the mutations w is a write of header bytes
HeaderLast(w) ==
    Len(w) > 0 =>
        IsHeaderWrite(IF Len(w) = 1 THEN [log |-> log, idx |-> idx] ELSE w[Len(w) - 1],
                      w[Len(w)])

\* the mutations w end with the files as the operation left them
EndsAt(w, log_, idx_) ==
    IF Len(w) = 0 THEN log_ = log /\ idx_ = idx
    ELSE w[Len(w)].log = log_ /\ w[Len(w)].idx = idx_

\* C29: in write, commit and truncate the write of the header bytes (head or
\* commit field) is the last file mutation of the operation.
C29_HeaderLast ==
    [][ /\ (Did("write") /\ lastOp'.ok) =>
               \E w \in {Wal_write_writes(Cur, lastOp'.data)} : HeaderLast(w)
        /\ (Did("commit") /\ lastOp'.ok) =>
               \E w \in {Wal_commit_writes(Cur, lastOp'.arg)} : HeaderLast(w)
        /\ (Did("truncate") /\ lastOp'.ok) =>
               \E w \in {Wal_truncate_writes(Cur, lastOp'.arg)} : HeaderLast(w) ]_vars

\* C29, amended: in write (payload, slot, head) and in commit the write of
\* the header bytes is the last file mutation; in truncate the write of the
\* head is the first one and the truncation of the log file the last.
C29_HeaderLastButTruncate ==
    [][ /\ (Did("write") /\ lastOp'.ok) =>
               \E w \in {Wal_write_writes(Cur, lastOp'.data)} :
                   /\ Len(w) = 3
                   /\ w[1].idx = idx /\ w[1].log # log
                   /\ w[2].log = w[1].log
                   /\ SubSeq(w[2].idx, 1, HLEN) = SubSeq(idx, 1, HLEN)
                   /\ HeaderLast(w)
                   /\ EndsAt(w, log', idx')
        /\ (Did("commit") /\ lastOp'.ok) =>
               \E w \in {Wal_commit_writes(Cur, lastOp'.arg)} :
                   /\ Len(w) <= 1
                   /\ HeaderLast(w)
                   /\ EndsAt(w, log', idx')
        /\ (Did("truncate") /\ lastOp'.ok) =>
               \E w \in {Wal_truncate_writes(Cur, lastOp'.arg)} :
                   /\ Len(w) = 2
                   /\ IsHeaderWrite([log |-> log, idx |-> idx], w[1])
                   /\ w[2].idx = w[1].idx
                   /\ Len(w[2].log) < Len(w[1].log)
                   /\ EndsAt(w, log', idx')
        /\ DidRecover =>
               \E w \in {Wal_recover_writes(Cur, [calls |-> lastOp'.calls, st |-> Cur'])} :
                   EndsAt(w, log', idx') ]_vars

C29_Witness ==
    /\ lastOp.op = "truncate" /\ lastOp.ok /\ lastOp.arg = 1
    /\ head(hdr) = 1
    /\ Len(log) = 2
    /\ Len(idx) = HLEN + 4 * SIZEOF_INT

\* the write failed between the write of its payload and the increment
WriteFailed == Did("write") /\ ~lastOp'.ok /\ lastOp'.err = ERR_IO

\* C30: when a write fails after the payload was written to the log file
\* and before the index was incremented, next, commitHead and every entry
\* are as before, the bytes written lie at or beyond O(head), where no read
\* reaches them, and a later successful truncate leaves a log file that
\* ends at O(head).
C30_FailedWrite ==
    [][ /\ WriteFailed =>
            /\ Wal_next(Cur') = Wal_next(Cur)
            /\ Wal_commitHead(Cur') = Wal_commitHead(Cur)
            /\ idx' = idx
            /\ \A L \in Lsns :
                  /\ Wal_read(Cur', L).ok = Wal_read(Cur, L).ok
                  /\ Wal_read(Cur', L).out = Wal_read(Cur, L).out
                  /\ L < head(hdr) => (Wal_read(Cur', L).ok /\ Wal_read(Cur', L).out = stored[L])
                  /\ L >= head(hdr) => ~Wal_read(Cur', L).ok
            /\ Len(log') >= O(head(hdr)) + Len(lastOp'.data)
            /\ SubSeq(log', 1, O(head(hdr))) = SubSeq(log, 1, O(head(hdr)))
            /\ SubSeq(log', O(head(hdr)) + 1, O(head(hdr)) + Len(lastOp'.data)) = lastOp'.data
        /\ (Did("truncate") /\ lastOp'.ok) =>
            /\ Len(log') = Index_offset(Cur', head(hdr')).res
            /\ Len(log') <= Len(log)
        /\ (Did("write") /\ lastOp'.ok) =>
            \A L \in 0..head(hdr) : Wal_read(Cur', L).ok /\ Wal_read(Cur', L).out = stored'[L]
      ]_vars

C30_Witness ==
    /\ lastOp.op = "write" /\ ~lastOp.ok /\ lastOp.err = ERR_IO
    /\ head(hdr) = 2
    /\ Len(log) = O(2) + 2
    /\ lastOp.data = <<66, 67>>

\* C25: openOrCreate opens the log when open succeeds; when open fails
\* with ENOENT and writable is true it creates the log, which is empty then;
\* when open fails with ENOENT and writable is false or not given it fails
\* with ENOENT and no file is created; every other error of open is the
\* error it fails with.
C25_OpenOrCreate ==
    [][ Did("openOrCreate") =>
          LET o == Wal_openFiles(Cur, lastOp'.fault)
              writable == lastOp'.writable = "true"
          IN  /\ o.ok =>
                    /\ lastOp'.ok
                    /\ log' = log /\ idx' = idx
                    /\ hdr' = SubSeq(idx, 1, HLEN)
              /\ (~o.ok /\ o.err = ENOENT /\ writable) =>
                    /\ lastOp'.ok
                    /\ IsOpen'
                    /\ log' = <<>>
                    /\ idx' = Index_create(0, 0)
                    /\ Wal_next(Cur') = 0
                    /\ Wal_commitHead(Cur') = -1
                    /\ Wal_size(Cur') = 0
              /\ (~o.ok /\ o.err = ENOENT /\ ~writable) =>
                    /\ ~lastOp'.ok /\ lastOp'.err = ENOENT
                    /\ log' = log /\ idx' = idx /\ ~IsOpen'
              /\ (~o.ok /\ o.err # ENOENT) =>
                    /\ ~lastOp'.ok /\ lastOp'.err = o.err
                    /\ log' = log /\ idx' = idx /\ ~IsOpen' ]_vars

\* a write, commit or truncate ended in an error
Failed ==
    /\ Did("write") \/ Did("commit") \/ Did("truncate")
    /\ ~lastOp'.ok

\* C32: after every operation the cached header equals the header bytes of
\* the index file, also after a write, commit or truncate whose file write
\* failed with an I/O error; a failed operation leaves next and commitHead
\* as they were.
C32_CachedHeaderIsFile ==
    [][ /\ IsOpen' => hdr' = SubSeq(idx', 1, HLEN)
        /\ Failed =>
              /\ Wal_next(Cur') = Wal_next(Cur)
              /\ Wal_commitHead(Cur') = Wal_commitHead(Cur) ]_vars

\* C33: commitHead never decreases; a commit that changes it raises it by
\* exactly 1; write, read, truncate and every operation that fails leave it
\* as it is.
C33_CommitHeadNeverDecreases ==
    [][ (IsOpen /\ IsOpen') =>
          /\ commitHead(hdr') >= commitHead(hdr)
          /\ (Did("commit") /\ commitHead(hdr') # commitHead(hdr)) =>
                commitHead(hdr') = commitHead(hdr) + 1
          /\ (Did("write") \/ Did("read") \/ Did("truncate") \/ Did("isCommitted")) =>
                commitHead(hdr') = commitHead(hdr)
          /\ ~lastOp'.ok => commitHead(hdr') = commitHead(hdr) ]_vars

\* the handler's answer in the last of its invocations of a recover
LastCall == lastOp'.calls[Len(lastOp'.calls)]

\* the recover's handler threw, or its eventual failed, at LSN LastCall.lsn
HandlerFailed ==
    /\ Did("recover")
    /\ lastOp'.calls # <<>>
    /\ LastCall.answer.kind \in {"throws", "eventual fails"}

\* C34: when the handler throws, or the eventual it returned fails, at LSN
\* L, recover fails with that error; the LSNs accepted before L are
\* committed (commitHead is L - 1), and the entry at L and all later entries
\* are still in the log, readable, uncommitted and not truncated.
C34_HandlerFailurePropagates ==
    [][ HandlerFailed =>
          /\ ~lastOp'.ok
          /\ lastOp'.err = LastCall.answer.val
          /\ Wal_commitHead(Cur') = LastCall.lsn - 1
          /\ \A k \in 1..(Len(lastOp'.calls) - 1) :
                lastOp'.calls[k].committed = lastOp'.calls[k].lsn
          /\ Wal_next(Cur') = Wal_next(Cur)
          /\ Wal_next(Cur') > LastCall.lsn
          /\ log' = log
          /\ stored' = stored
          /\ \A M \in LastCall.lsn..(Wal_next(Cur) - 1) :
                /\ Wal_read(Cur', M).ok
                /\ Wal_read(Cur', M).out = stored[M]
                /\ M > Wal_commitHead(Cur') ]_vars

\* a recover failed with the handler's exception at the second entry it
\* was asked about, with a further entry after it
C34_Witness ==
    /\ lastOp.op = "recover"
    /\ Len(lastOp.calls) = 2
    /\ lastOp.calls[2].answer = Throws
    /\ lastOp.err = Throws.val
    /\ Wal_commitHead(Cur) = lastOp.calls[1].lsn
    /\ Wal_next(Cur) > lastOp.calls[2].lsn + 1

\* the recover's handler answered with a falsy value, directly or through
\* an eventual, at LSN LastCall.lsn
HandlerFalsy ==
    /\ Did("recover")
    /\ lastOp'.calls # <<>>
    /\ LastCall.answer.kind \in {"value", "eventual"}
    /\ ~TruthyValue(LastCall.answer.val)

\* C36: whatever falsy value the handler answers with for LSN L (false, 0,
\* null, undefined, the empty string, directly or through an eventual),
\* recover truncates the log at L and finishes without error.
C36_AnyFalsyTruncates ==
    [][ HandlerFalsy =>
          /\ lastOp'.ok
          /\ lastOp'.err = NoError
          /\ Wal_next(Cur') = LastCall.lsn
          /\ Wal_commitHead(Cur') = LastCall.lsn - 1
          /\ log' = SubSeq(log, 1, O(LastCall.lsn)) ]_vars

\* the file offsets of the index file's slots for the LSNs base .. head
SlotBytes ==
    (HLEN + localizeIndex(hdr, baseIndex(hdr)) * SIZEOF_INT)
        ..(HLEN + (localizeIndex(hdr, head(hdr)) + 1) * SIZEOF_INT - 1)

\* C35: read(L) fails with 'index out of range' for every L outside
\* base .. next - 1, the negative L included; it never returns bytes for an
\* LSN at which no entry is stored; and no lookup in the index reads bytes
\* of the file outside the slots of base .. head.
C35_ReadOutOfRange ==
    [][ Did("read") =>
          /\ (lastOp'.arg < baseIndex(hdr) \/ lastOp'.arg >= Wal_next(Cur)) =>
                /\ ~lastOp'.ok
                /\ lastOp'.err = ERR_RANGE
          /\ lastOp'.ok =>
                /\ lastOp'.arg \in DOMAIN stored
                /\ stored[lastOp'.arg] # None
          /\ lastOp'.err # ERR_RANGE =>
                Index_get_reads(Cur, lastOp'.arg) \subseteq SlotBytes ]_vars

\* the number of 'data' events among the events a consumer received
RECURSIVE DataEvents(_)
DataEvents(events) ==
    IF events = <<>> THEN 0
    ELSE (IF Head(events).ev = "data" THEN 1 ELSE 0) + DataEvents(Tail(events))

\* the consumer of the stream has made no read request yet: a request sets
\* sending, which only a push into the stream's buffer resets
NothingRequested ==
    /\ ~rr.sending
    /\ rr.buffer = <<>>
    /\ rr.seen = <<>>
    /\ ~rr.eof

\* C37 as stated: a read of the log file is in flight only after the
\* consumer has requested data.
C37_ReadsOnDemand ==
    rr.pc = "read" => ~NothingRequested

\* C37, amended: the index is queried once for the whole range; the
\* elements are then read from the log file one after the other in LSN
\* order, whether or not the consumer has requested them, and every element
\* read and not yet pushed to the stream is held in the FIFO: the elements
\* read so far are those the consumer received, those the stream buffers
\* and those waiting in the FIFO, in this order.
C37_ReadsAhead ==
    /\ rr.pc \in {"read", "last", "done"} =>
          rr.range = Index_getRange(Cur, rr.first, rr.count).range
    /\ Streaming =>
          /\ rr.k <= Len(rr.range)
          /\ rr.pc = "read" => rr.k < Len(rr.range)
          /\ rr.k = Queue_length(rr.ready) + Len(rr.buffer) + DataEvents(rr.seen)
          /\ \A i \in 1..Queue_length(rr.ready) :
                LET e == rr.range[rr.k - Queue_length(rr.ready) + i]
                IN  rr.ready.queue[rr.ready.offset + i]
                        = FileRead(log, e.offset, e.length)

\* two elements were read from the log file and wait in the FIFO, a third
\* read is in flight, and the consumer has requested nothing
C37_Witness ==
    /\ rr.pc = "read"
    /\ rr.k = 2
    /\ Queue_length(rr.ready) = 2
    /\ NothingRequested

\* the number of items pushed to the stream so far
Pushed(s) == Len(s.buffer) + DataEvents(s.seen)

\* the items the consumer received, in order
RECURSIVE DataOf(_)
DataOf(events) ==
    IF events = <<>> THEN <<>>
    ELSE (IF Head(events).ev = "data" THEN <<Head(events).data>> ELSE <<>>)
             \o DataOf(Tail(events))

\* the items waiting in the FIFO, oldest first
Waiting(q) == SubSeq(q.queue, q.offset + 1, Len(q.queue))

\* a step of readRange in which the stream asks for data (_read): it is not
\* a step of the reads of the range
IsRequest == rr'.pc = rr.pc /\ rr'.k = rr.k

\* C38: readRange respects the stream's flow control. An item is pushed
\* only in a read request of the consumer or while sending holds; sending
\* holds only from a read request until a push answers false, so nothing
\* is pushed before the first request nor after a push that reported the
\* consumer full, until the next request. The items read meanwhile wait in
\* the FIFO, and the items pushed followed by the items waiting are the
\* entries read so far in LSN order. The end is signalled only when the
\* FIFO is empty and all count items were pushed.
C38_FlowControl ==
    [][ (Streaming /\ Streaming') =>
          /\ Pushed(rr') > Pushed(rr) =>
                /\ rr.sending \/ IsRequest
                /\ rr'.sending = (Bytes(rr'.buffer) < HighWaterMark)
          /\ (rr'.sending /\ ~rr.sending) => IsRequest
          /\ (~rr.sending /\ ~IsRequest) =>
                /\ Pushed(rr') = Pushed(rr)
                /\ Queue_length(rr'.ready) >= Queue_length(rr.ready)
          /\ DataOf(rr'.seen) \o rr'.buffer \o Waiting(rr'.ready)
                = [i \in 1..rr'.k |-> stored[rr.first + i - 1]]
          /\ (rr'.eof /\ ~rr.eof) =>
                /\ Queue_isEmpty(rr'.ready)
                /\ rr'.k = rr.count
                /\ Pushed(rr') = rr.count
          /\ (\E i \in 1..Len(rr'.seen) : rr'.seen[i] = End) => rr'.eof
          /\ \A i \in 1..Len(rr'.seen) : rr'.seen[i] # PushAfterEof ]_vars

\* a push reported the consumer full: sending is off, the stream's buffer
\* is at the highWaterMark, and an item read since waits in the FIFO
C38_Witness ==
    /\ Streaming
    /\ ~rr.sending
    /\ Bytes(rr.buffer) >= HighWaterMark
    /\ Queue_length(rr.ready) >= 1

\* the last operation on the path was a create that died between its two
\* files, or an openOrCreate whose open or create failed on a file that is
\* missing or exists
LeftBehind ==
    \/ lastOp.op = "create"
    \/ /\ lastOp.op = "openOrCreate"
       /\ ~lastOp.ok
       /\ lastOp.err \in {ENOENT, EEXIST}

\* C39: after a create that failed or was interrupted between its two
\* files, or an open that failed on the index file, an openOrCreate with
\* writable = true on the same path succeeds and yields a log that is open
\* and can be written.
C39_OpenOrCreateAfterFailure ==
    [][ ( /\ LeftBehind
          /\ Did("openOrCreate")
          /\ lastOp'.writable = "true"
          /\ lastOp'.fault = NoError ) =>
          /\ lastOp'.ok
          /\ IsOpen'
          /\ Wal_write(Cur', <<65>>).ok ]_vars

\* the item at the head of a FIFO sequence, undefined if there is none
Oldest(fifo) == IF fifo = <<>> THEN Undefined ELSE Head(fifo)

\* C40: under any interleaving of enqueue, dequeue and peek the Queue
\* behaves as the FIFO sequence of the items enqueued and not yet dequeued:
\* dequeue returns the oldest item and removes it, also across the slicing
\* of the array; peek returns the item the next dequeue returns and removes
\* nothing; on an empty queue both return undefined and leave it empty;
\* length is the number of items of the sequence and isEmpty holds exactly
\* when length is 0.
C40_QueueIsFifo ==
    [][ /\ Did("dequeue") =>
              /\ lastOp'.out = Oldest(lastOp.view)
              /\ lastOp.view = <<>> => Queue_isEmpty(rr'.ready)
        /\ Did("peek") =>
              /\ lastOp'.out = Oldest(lastOp.view)
              /\ lastOp'.out = Queue_dequeue(rr'.ready).item
              /\ lastOp'.view = lastOp.view
              /\ Waiting(rr'.ready) = Waiting(rr.ready)
        /\ Did("enqueue") => lastOp'.view = Append(lastOp.view, lastOp'.data)
        /\ lastOp'.res = Len(lastOp'.view)
        /\ Queue_length(rr'.ready) = Len(lastOp'.view)
        /\ lastOp'.answer = (lastOp'.res = 0)
        /\ Queue_isEmpty(rr'.ready) = (Queue_length(rr'.ready) = 0)
        /\ Waiting(rr'.ready) = lastOp'.view ]_vars

\* a dequeue has sliced the array and left two items in the queue
C40_Witness ==
    /\ lastOp.op = "dequeue"
    /\ lastOp.out # Undefined
    /\ rr.ready.offset = 0
    /\ Len(rr.ready.queue) = 2
    /\ lastOp.view = rr.ready.queue

\* the write w has written its payload to the log file
HasWritten(w) == w.pc \in {"slot", "header", "done"}

\* C31 as stated: whenever the second write is launched before the first
\* has completed, both read the same head and write at the same offset of
\* the log file, and the second payload lies over the first.
C31_SameOffset ==
    Len(writes) = 2 =>
        /\ writes[2].head = writes[1].head
        /\ (writes[1].firstByte >= 0 /\ writes[2].firstByte >= 0) =>
              writes[2].firstByte = writes[1].firstByte
        /\ (HasWritten(writes[1]) /\ HasWritten(writes[2])) =>
              FileRead(log, writes[1].firstByte, Len(writes[2].data)) = writes[2].data

\* the payload of w is in the log file where w wrote it
Intact(w) == FileRead(log, w.firstByte, Len(w.data)) = w.data

\* C31, amended: when the second write is launched before the first has
\* advanced the cached head (before the first's slot write has completed),
\* both read the same head and write at the same offset of the log file,
\* and the payload written later lies over the other; when it is launched
\* after that, while the first flushes the head, it reads the advanced
\* head and writes its payload right after the first's, which stays.
C31_SameOffsetUntilHeadAdvances ==
    Len(writes) = 2 =>
        /\ writes[2].after \in {"offset", "log", "slot"} =>
              /\ writes[2].head = writes[1].head
              /\ (writes[1].firstByte >= 0 /\ writes[2].firstByte >= 0) =>
                    writes[2].firstByte = writes[1].firstByte
              /\ (HasWritten(writes[1]) /\ HasWritten(writes[2])) =>
                    /\ writes[1].last # writes[2].last
                    /\ writes[1].last => Intact(writes[1])
                    /\ writes[2].last => Intact(writes[2])
        /\ writes[2].after = "header" =>
              /\ writes[2].head = writes[1].head + 1
              /\ writes[2].firstByte >= 0 =>
                    writes[2].firstByte = writes[1].subsequentByte
              /\ HasWritten(writes[2]) =>
                    /\ Intact(writes[1])
                    /\ Intact(writes[2])

\* two writes of different payloads, the second launched while the first
\* was writing its payload, have both completed: they resolved with the
\* same LSN and the second payload lies where the first was written
C31_Witness ==
    /\ Len(writes) = 2
    /\ writes[2].after = "log"
    /\ writes[1].pc = "done" /\ writes[2].pc = "done"
    /\ writes[1].data # writes[2].data
    /\ writes[2].last
    /\ writes[1].res = writes[2].res
    /\ FileRead(log, writes[1].firstByte, Len(writes[2].data)) = writes[2].data

============================================================================
